---------------------------- MODULE Spec2Model ----------------------------
(***************************************************************************)
(* Dashboard status widgets (donut + legend, single card): the data        *)
(* aggregation of processData and the selection handling of the click      *)
(* handlers, for the four widget variants that keep a selection:           *)
(*   "agg"   pre-aggregated donut widget      (src/unnamed/part_000)       *)
(*   "attr"  attribute donut widget           (src/unnamed/part_002, 1-874 *)
(*           and its restyled copy 875-1722, same logic)                   *)
(*   "range" range widget with recalculation  (src/unnamed/part_002,       *)
(*           1723-2515)                                                    *)
(*   "card"  single-card widget (src/projects/custom-chart/src/chart.ts)   *)
(*                                                                         *)
(* Conventions.  A JavaScript number is a record [nan, v]: NaN is the      *)
(* record with nan = TRUE.  Counts, totals, order values and the rounded   *)
(* scores are held as integers.  Score-like inputs (the average-score      *)
(* cell of the pre-aggregated widget, the raw score cell of the range      *)
(* widget) are held in tenths, so 87.5 is 875; Math.round of a quotient is *)
(* computed exactly on the integers.  JavaScript null and undefined are    *)
(* the records Null and Undef; a string s is Str(s).                       *)
(***************************************************************************)
EXTENDS Integers, Sequences, FiniteSets, TLC

(***************************************************************************)
(* JavaScript values                                                       *)
(***************************************************************************)
Null == [kind |-> "null"]
Undef == [kind |-> "undef"]
Str(s) == [kind |-> "str", s |-> s]
NumCell(v) == [kind |-> "num", v |-> v]
ObjId(id) == [kind |-> "obj", id |-> id]

N(v) == [nan |-> FALSE, v |-> v]
NaN == [nan |-> TRUE, v |-> 0]

JsAdd(a, b) == IF a.nan \/ b.nan THEN NaN ELSE N(a.v + b.v)
JsMul(a, b) == IF a.nan \/ b.nan THEN NaN ELSE N(a.v * b.v)
JsGtZero(a) == ~a.nan /\ a.v > 0
JsIsZero(a) == ~a.nan /\ a.v = 0

\* Math.round(num / den) for den > 0: floor(num/den + 1/2).
RoundDiv(num, den) == (2 * num + den) \div (2 * den)

\* a % n of JavaScript: the result has the sign of the dividend.
JsMod(a, n) == IF a >= 0 THEN a % n ELSE 0 - ((0 - a) % n)

\* Number(x) for the cell shapes of the model: Number(null) = 0,
\* Number(undefined) = NaN, Number("") = 0, every other string of the
\* model is non-numeric, Number(object) = NaN.
ToNumber(c) ==
  IF c.kind = "num" THEN N(c.v)
  ELSE IF c.kind = "null" THEN N(0)
  ELSE IF c.kind = "str" /\ c.s = "" THEN N(0)
  ELSE NaN

\* String(x) for a string or a number cell; String(object) otherwise.
ToStr(c) ==
  IF c.kind = "str" THEN c.s
  ELSE IF c.kind = "num" THEN ToString(c.v)
  ELSE "[object Object]"

IsNullish(c) == c.kind = "null" \/ c.kind = "undef"

\* Truthiness of a cell: null, undefined, "", 0 are falsy.
Truthy(c) ==
  /\ ~IsNullish(c)
  /\ ~(c.kind = "str" /\ c.s = "")
  /\ ~(c.kind = "num" /\ c.v = 0)

\* row[i] of a JavaScript array, zero-based index i.
CellAt(row, i) == IF i + 1 <= Len(row) THEN row[i + 1] ELSE Undef

(***************************************************************************)
(* Slots: a slot configuration maps a slot name to its content, a list of  *)
(* columns; an unfilled (or absent) slot has the empty list.               *)
(***************************************************************************)
Column(name) == [columnId |-> name, datasetId |-> "ds"]
Filled(name) == <<Column(name)>>
SlotFilled(slots, name) == Len(slots[name]) > 0

(***************************************************************************)
(* Insertion-ordered maps (JavaScript objects used as dictionaries), as    *)
(* sequences of entries with a key field.  The keys of the model are never *)
(* integer-like, so Object.keys returns them in insertion order.           *)
(***************************************************************************)
RECURSIVE IndexOfKey(_, _, _)
IndexOfKey(entries, key, i) ==
  IF i > Len(entries) THEN 0
  ELSE IF entries[i].key = key THEN i
  ELSE IndexOfKey(entries, key, i + 1)

HasKey(entries, key) == IndexOfKey(entries, key, 1) # 0
Get(entries, key) == entries[IndexOfKey(entries, key, 1)]
Put(entries, e) ==
  LET i == IndexOfKey(entries, e.key, 1)
  IN IF i = 0 THEN Append(entries, e) ELSE [entries EXCEPT ![i] = e]

RECURSIVE KeysOf(_)
KeysOf(entries) ==
  IF entries = <<>> THEN <<>> ELSE <<entries[1].key>> \o KeysOf(Tail(entries))

RECURSIVE SeqContains(_, _)
SeqContains(s, x) ==
  IF s = <<>> THEN FALSE ELSE s[1] = x \/ SeqContains(Tail(s), x)

RECURSIVE SelectKeys(_, _)
SelectKeys(s, keep) ==
  IF s = <<>> THEN <<>>
  ELSE (IF keep[s[1]] THEN <<s[1]>> ELSE <<>>) \o SelectKeys(Tail(s), keep)

\* Array.prototype.sort with the comparator rank(a) - rank(b): a stable sort.
RECURSIVE InsertByRank(_, _, _)
InsertByRank(sorted, x, rank) ==
  IF sorted = <<>> THEN <<x>>
  ELSE IF rank[x] < rank[sorted[1]] THEN <<x>> \o sorted
  ELSE <<sorted[1]>> \o InsertByRank(Tail(sorted), x, rank)

RECURSIVE SortByRank(_, _)
SortByRank(s, rank) ==
  IF s = <<>> THEN <<>>
  ELSE InsertByRank(SortByRank(SubSeq(s, 1, Len(s) - 1), rank), s[Len(s)], rank)


(***************************************************************************)
(* Value extraction (part_000)                                             *)
(***************************************************************************)
\* extractValue(obj, type).
extractValue(obj, type) ==
  IF IsNullish(obj) THEN (IF type = "number" THEN N(0) ELSE Str("Unknown"))
  ELSE IF type = "number" /\ obj.kind = "num" THEN N(obj.v)
  ELSE IF type = "string" /\ obj.kind = "str" THEN obj
  ELSE IF obj.kind = "obj"
    THEN (IF type = "number" THEN ToNumber(obj.id) ELSE Str(ToStr(obj.id)))
  ELSE (IF type = "number" THEN ToNumber(obj) ELSE Str(ToStr(obj)))

\* extractCategoryName(categoryObj, language).  The cells of the model carry
\* no localized name maps; an object has an id and possibly a string name.
extractCategoryName(categoryObj) ==
  IF ~Truthy(categoryObj) THEN "Unknown"
  ELSE IF categoryObj.kind = "obj" /\ "name" \in DOMAIN categoryObj
    THEN (IF ~IsNullish(categoryObj.name) THEN ToStr(categoryObj.name)
          ELSE IF ~IsNullish(categoryObj.id) THEN ToStr(categoryObj.id)
          ELSE "Unknown")
  ELSE IF categoryObj.kind = "obj"
    THEN (IF ~IsNullish(categoryObj.id) THEN ToStr(categoryObj.id)
          ELSE ToStr(categoryObj))
  ELSE ToStr(categoryObj)

(***************************************************************************)
(* Pre-aggregated donut widget (part_000): processData                     *)
(***************************************************************************)
healthyColor == "#75BB43"
warningColor == "#FEC325"
errorColor == "#BA1A1A"
UndefinedColor == "undefined"

\* The body of data.forEach in processData: one pre-aggregated row.
Agg_forEachRow(acc, row, hasOrderColumn) ==
  LET categoryObj == CellAt(row, 0)
      orderValueObj == IF hasOrderColumn THEN CellAt(row, 1) ELSE Undef
      sizeObj == IF hasOrderColumn THEN CellAt(row, 2) ELSE CellAt(row, 1)
      avgScoreObj == IF hasOrderColumn THEN CellAt(row, 3) ELSE CellAt(row, 2)
      categoryValue == extractCategoryName(categoryObj)
      countValue == extractValue(sizeObj, "number")
      avgScoreValue == extractValue(avgScoreObj, "number")
      orderValue == extractValue(orderValueObj, "number")
      data1 == Put(acc.categoryData,
                   [key |-> categoryValue, count |-> countValue,
                    avgScore |-> avgScoreValue])
      orders1 == IF hasOrderColumn /\ ~IsNullish(orderValueObj) /\ ~orderValue.nan
                 THEN Put(acc.categoryOrders,
                          [key |-> categoryValue, order |-> orderValue.v])
                 ELSE acc.categoryOrders
  IN [categoryData |-> data1, categoryOrders |-> orders1]

RECURSIVE Agg_readRows(_, _, _)
Agg_readRows(acc, data, hasOrderColumn) ==
  IF data = <<>> THEN acc
  ELSE Agg_readRows(Agg_forEachRow(acc, data[1], hasOrderColumn),
                    Tail(data), hasOrderColumn)

\* A fallback that substitutes nothing.
Agg_noSampleData == << >>

\* Fallback: sample data (average scores in tenths).
Agg_sampleData ==
  << [key |-> "Healthy", count |-> N(6), avgScore |-> N(870)],
     [key |-> "Warning", count |-> N(4), avgScore |-> N(650)],
     [key |-> "Error", count |-> N(2), avgScore |-> N(350)] >>

\* A display order that is the order of first appearance, never sorted.
Agg_uniqueCategoriesUnsorted(categoryData, categoryOrders, hasOrderColumn) == KeysOf(categoryData)

\* "Determine sort order": the display order of the category keys.
Agg_uniqueCategories(categoryData, categoryOrders, hasOrderColumn) ==
  LET keys == KeysOf(categoryData)
  IN IF hasOrderColumn /\ Len(categoryOrders) > 0
     THEN SortByRank(keys,
            [k \in {keys[i] : i \in 1..Len(keys)} |->
               IF HasKey(categoryOrders, k) THEN Get(categoryOrders, k).order
               ELSE 999])
     ELSE LET orderedCategoryNames == <<"Healthy", "Warning", "Error">>
              named == SelectKeys(orderedCategoryNames,
                         [c \in {"Healthy", "Warning", "Error"} |->
                            HasKey(categoryData, c)])
          IN named \o SelectKeys(keys,
                        [k \in {keys[i] : i \in 1..Len(keys)} |->
                           ~SeqContains(named, k)])

\* cats.reduce((sum, cat) => sum + categoryData[cat].count, 0)
RECURSIVE SumCounts(_, _)
SumCounts(cats, categoryData) ==
  IF cats = <<>> THEN N(0)
  ELSE JsAdd(SumCounts(SubSeq(cats, 1, Len(cats) - 1), categoryData),
             Get(categoryData, cats[Len(cats)]).count)

\* cats.reduce((sum, cat) => sum + count * avgScore, 0), in tenths.
RECURSIVE SumWeighted(_, _)
SumWeighted(cats, categoryData) ==
  IF cats = <<>> THEN N(0)
  ELSE JsAdd(SumWeighted(SubSeq(cats, 1, Len(cats) - 1), categoryData),
             JsMul(Get(categoryData, cats[Len(cats)]).count,
                   Get(categoryData, cats[Len(cats)]).avgScore))

\* cats.reduce((sum, cat) => sum + avgScore, 0), in tenths.
RECURSIVE SumAverages(_, _)
SumAverages(cats, categoryData) ==
  IF cats = <<>> THEN N(0)
  ELSE JsAdd(SumAverages(SubSeq(cats, 1, Len(cats) - 1), categoryData),
             Get(categoryData, cats[Len(cats)]).avgScore)

\* A score that is the plain mean of the average values, counts ignored.
calculateUnweightedScore(categories, categoryData) ==
  LET Score(total, sum) ==
        IF JsGtZero(total)
        THEN (IF sum.nan THEN NaN
              ELSE N(RoundDiv(sum.v, 10 * Len(categories))))
        ELSE N(0)
  IN Score(SumCounts(categories, categoryData),
           SumAverages(categories, categoryData))

\* A score that divides the weighted sum by the number of categories.
calculateScorePerCategory(categories, categoryData) ==
  LET Score(total, weightedSum) ==
        IF JsGtZero(total)
        THEN (IF weightedSum.nan THEN NaN
              ELSE N(RoundDiv(weightedSum.v, 10 * Len(categories))))
        ELSE N(0)
  IN Score(SumCounts(categories, categoryData),
           SumWeighted(categories, categoryData))

\* calculateAggregatedScore(categories, categoryData): Math.round(NaN) is NaN.
calculateAggregatedScore(categories, categoryData) ==
  LET Score(total, weightedSum) ==
        IF JsGtZero(total)
        THEN (IF weightedSum.nan THEN NaN
              ELSE N(RoundDiv(weightedSum.v, 10 * total.v)))
        ELSE N(0)
  IN Score(SumCounts(categories, categoryData),
           SumWeighted(categories, categoryData))

\* getCategoryColor(categoryValue, categoryOrders, hasOrderColumn).
getCategoryColor(categoryValue, categoryOrders, hasOrderColumn) ==
  LET colorArray == <<healthyColor, warningColor, errorColor>>
  IN IF hasOrderColumn /\ HasKey(categoryOrders, categoryValue)
     THEN LET idx == JsMod(Get(categoryOrders, categoryValue).order,
                           Len(colorArray))
          IN IF idx >= 0 THEN colorArray[idx + 1] ELSE UndefinedColor
     ELSE IF categoryValue = "Healthy" THEN healthyColor
     ELSE IF categoryValue = "Warning" THEN warningColor
     ELSE IF categoryValue = "Error" THEN errorColor
     ELSE healthyColor

\* "Filter data if category is selected": the working set.
Agg_filteredCategories(uniqueCategories, selectedCategory) ==
  IF Truthy(selectedCategory)
  THEN SelectKeys(uniqueCategories,
         [k \in {uniqueCategories[i] : i \in 1..Len(uniqueCategories)} |->
            Str(k) = selectedCategory])
  ELSE uniqueCategories

\* An overall total taken from the working set instead: the recomputation
\* from filtered data that the total invariant rules out.
Agg_overallTotalOfWorkingSet(uniqueCategories, filteredCategories, categoryData) ==
  SumCounts(filteredCategories, categoryData)

\* "Calculate overall total across all categories".
Agg_overallTotal(uniqueCategories, filteredCategories, categoryData) ==
  SumCounts(uniqueCategories, categoryData)

\* selectedCategory: selectedCategory || null in the returned state.
Agg_selectedCategory(selectedCategory) ==
  IF Truthy(selectedCategory) THEN selectedCategory ELSE Null

\* processData(data, slots, colors, language, selectedCategory).
Agg_processData(data, slots, selectedCategory) ==
  LET hasOrderColumn == SlotFilled(slots, "order")
      empty == [categoryData |-> <<>>, categoryOrders |-> <<>>]
      State(categoryData, categoryOrders, uniqueCategories,
            filteredCategories) ==
        [defined |-> TRUE,
         categories |->
           [i \in 1..Len(uniqueCategories) |->
              [name |-> uniqueCategories[i],
               count |-> Get(categoryData, uniqueCategories[i]).count,
               color |-> getCategoryColor(uniqueCategories[i], categoryOrders,
                                          hasOrderColumn),
               value |-> Str(uniqueCategories[i])]],
         total |-> SumCounts(filteredCategories, categoryData),
         overallTotal |->
           Agg_overallTotal(uniqueCategories, filteredCategories, categoryData),
         aggregatedScore |->
           calculateAggregatedScore(filteredCategories, categoryData),
         categorySlot |-> slots["category"],
         selectedCategory |-> Agg_selectedCategory(selectedCategory),
         allCategoryData |-> categoryData]
      Sorted(categoryData, categoryOrders, uniqueCategories) ==
        State(categoryData, categoryOrders, uniqueCategories,
              Agg_filteredCategories(uniqueCategories, selectedCategory))
      Read(categoryData, categoryOrders) ==
        Sorted(categoryData, categoryOrders,
               Agg_uniqueCategories(categoryData, categoryOrders,
                                    hasOrderColumn))
      Rows(read) ==
        Read(IF Len(read.categoryData) = 0 THEN Agg_sampleData
             ELSE read.categoryData,
             read.categoryOrders)
  IN Rows(IF /\ SlotFilled(slots, "category")
             /\ SlotFilled(slots, "size")
             /\ SlotFilled(slots, "measure")
             /\ Len(data) > 0
          THEN Agg_readRows(empty, data, hasOrderColumn)
          ELSE empty)

(***************************************************************************)
(* State                                                                   *)
(***************************************************************************)
VARIABLES
  variant,     \* which widget module is loaded: "agg", "attr", "range", "card"
  host,        \* the rows and the slot assignment the host passes to render
  chartState,  \* container.__chartState (NoState before the first render)
  stored,      \* container.__data and container.__slots (part_000 only)
  trace,       \* what the last entry point did, in order: renderWidget
               \* calls and the messages posted to window.parent
  lastOp,      \* history: the last entry point invoked and its argument
  before,      \* history: chartState before the last entry point (for a
               \* render only its selection)
  lastFilter   \* history: the last setFilter message posted to the host

vars == <<variant, host, chartState, stored, trace, lastOp, before,
          lastFilter>>

NoState == [defined |-> FALSE]

RenderEvent(state, emptyState) ==
  [type |-> "renderWidget", state |-> state, emptyState |-> emptyState]
\* sendCustomEvent(data)
sendCustomEvent(data) == [type |-> "customEvent", data |-> data]
\* sendFilterEvent(filters)
sendFilterEvent(filters) == [type |-> "setFilter", filters |-> filters]

\* No setFilter message has been posted yet.
NoFilter == [posted |-> FALSE]

\* The last setFilter message posted so far, after an entry point whose
\* messages are those of tr.
LastFilter(tr, previous) ==
  IF \E i \in 1..Len(tr) : tr[i].type = "setFilter"
  THEN [posted |-> TRUE,
        filters |-> tr[CHOOSE i \in 1..Len(tr) :
                         /\ tr[i].type = "setFilter"
                         /\ \A j \in (i + 1)..Len(tr) :
                              tr[j].type # "setFilter"].filters]
  ELSE previous

Op(op, via, index, target, threw) ==
  [op |-> op, via |-> via, index |-> index, target |-> target, threw |-> threw]

Selection(st) ==
  IF st.defined THEN [defined |-> TRUE, selectedCategory |-> st.selectedCategory]
  ELSE NoState

\* A filter expression that carries the column id and the dataset id as
\* two separate parameters.
FilterExprFlat(expression, column, value) ==
  [expression |-> expression,
   parameters |-> << column.columnId, column.datasetId, value >>,
   properties |-> [origin |-> "filterFromVizItem", type |-> "where"]]

\* A filter expression on a column.
FilterExpr(expression, column, value) ==
  [expression |-> expression,
   parameters |-> << [column_id |-> column.columnId,
                      dataset_id |-> column.datasetId], value >>,
   properties |-> [origin |-> "filterFromVizItem", type |-> "where"]]

(***************************************************************************)
(* Pre-aggregated donut widget (part_000): render, resize, clicks          *)
(***************************************************************************)
\* renderWidget: the empty-state screen replaces the widget.
Agg_emptyState(state) == JsIsZero(state.total) \/ Len(state.categories) = 0

\* renderDonutChart: the data of the pie, one path per entry.
Agg_pieData(state) ==
  IF Truthy(state.selectedCategory)
     /\ \E i \in 1..Len(state.categories) :
          state.categories[i].value = state.selectedCategory
  THEN LET i == CHOOSE i \in 1..Len(state.categories) :
                  state.categories[i].value = state.selectedCategory
           selectedCat == state.categories[i]
       IN << selectedCat,
             [name |-> "__empty__",
              count |-> JsAdd(state.overallTotal,
                              IF selectedCat.count.nan THEN NaN
                              ELSE N(0 - selectedCat.count.v)),
              color |-> "transparent",
              value |-> Str("__empty__")] >>
  ELSE state.categories

\* A percentage taken of the total of the working set.
Agg_percentageOfTotal(state, d) ==
  IF JsGtZero(state.total)
  THEN (IF d.count.nan THEN NaN
        ELSE N(RoundDiv(100 * d.count.v, state.total.v)))
  ELSE N(0)

\* renderDonutChart, mouseover: the percentage shown for the pie entry d
\* (no tooltip is shown for the '__empty__' entry).
Agg_percentage(state, d) ==
  IF JsGtZero(state.overallTotal)
  THEN (IF d.count.nan THEN NaN
        ELSE N(RoundDiv(100 * d.count.v, state.overallTotal.v)))
  ELSE N(0)

\* createCategoryFilter(categorySlot, categoryValue)
createCategoryFilter(categorySlot, categoryValue) ==
  IF Len(categorySlot) = 0 THEN <<>>
  ELSE << FilterExpr("? = ?", categorySlot[1], categoryValue) >>

\* A render that would carry the previous selection over.
Agg_renderKeepingSelection(data, slots, state) ==
  Agg_processData(data, slots,
                  IF state.defined THEN state.selectedCategory ELSE Undef)

\* render: processData without a selection.
Agg_renderState(data, slots, state) == Agg_processData(data, slots, Undef)

\* A resize that would rebuild the state from the stored rows.
Agg_resizeReprocessing(state, cont) ==
  Agg_processData(cont.data, cont.slots, Undef)

\* resize: the state that is laid out again.
Agg_resizeState(state, cont) == state

\* A selection rule without the toggle: the clicked key is always selected.
Agg_selectClicked(wasSelected, clickedValue) == clickedValue

\* handleCategoryClick: newSelection = wasSelected ? null : clickedValue
Agg_newSelection(wasSelected, clickedValue) ==
  IF wasSelected THEN Null ELSE clickedValue

\* A payload built from the numbers of the state before the click.
Agg_customEventDataBefore(category, state, newState) ==
  [eventType |-> "categorySelected",
   category |-> category.name,
   count |-> category.count,
   totalRecords |-> state.total,
   aggregatedScore |-> state.aggregatedScore,
   isFiltered |-> newState.selectedCategory # Null]

\* handleCategoryClick: the payload of the custom event.
Agg_customEventData(category, state, newState) ==
  [eventType |-> "categorySelected",
   category |-> category.name,
   count |-> category.count,
   totalRecords |-> newState.total,
   aggregatedScore |-> newState.aggregatedScore,
   isFiltered |-> newState.selectedCategory # Null]

\* handleCategoryClick: "Send filter event to dashboard".
Agg_filterEvents(newState, clickedValue) ==
  IF Truthy(newState.selectedCategory)
  THEN << sendFilterEvent(createCategoryFilter(newState.categorySlot,
                                                clickedValue)) >>
  ELSE << sendFilterEvent(<<>>) >>

\* handleCategoryClick(category, state, container, ...): the new
\* container.__chartState and what the handler does, in order.
Agg_handleCategoryClick(category, state, cont) ==
  LET clickedValue == category.value
      wasSelected == state.selectedCategory = clickedValue
      newSelection == Agg_newSelection(wasSelected, clickedValue)
      Done(newState) ==
        [chartState |-> newState,
         trace |-> << RenderEvent(newState, Agg_emptyState(newState)),
                      sendCustomEvent(Agg_customEventData(category, state,
                                                          newState)) >>
                   \o Agg_filterEvents(newState, clickedValue)]
  IN Done(Agg_processData(cont.data, cont.slots, newSelection))

(***************************************************************************)
(* Attribute donut widget (part_002, first module): processData            *)
(***************************************************************************)
\* DEFAULT_CONFIG.colors
DEFAULT_CONFIG_colors ==
  << "#75BB43", "#BA1A1A", "#FEC325", "#3b82f6",
     "#8b5cf6", "#ec4899", "#06b6d4", "#84cc16" >>

\* The strings that occur as keys, in the order of Array.prototype.sort()
\* without a comparator (UTF-16 code units).
KeyOrder ==
  << "", "Active", "Critical", "Error", "Healthy", "Info", "Not Active",
     "Other", "Sample KPI", "Unknown", "Warning", "[object Object]" >>
StrRank(k) == CHOOSE i \in 1..Len(KeyOrder) : KeyOrder[i] = k

\* The status value of a row: the inline name extraction of processData.
Attr_statusValue(statusValueObj) ==
  IF Truthy(statusValueObj) /\ statusValueObj.kind = "obj"
     /\ "name" \in DOMAIN statusValueObj
  THEN (IF ~IsNullish(statusValueObj.name) THEN ToStr(statusValueObj.name)
        ELSE IF ~IsNullish(statusValueObj.id) THEN ToStr(statusValueObj.id)
        ELSE "Unknown")
  ELSE IF IsNullish(statusValueObj) THEN "Unknown"
  ELSE IF statusValueObj.kind = "obj"
    THEN (IF ~IsNullish(statusValueObj.id) THEN ToStr(statusValueObj.id)
          ELSE ToStr(statusValueObj))
  ELSE ToStr(statusValueObj)

\* The measure and order cells: a number, Number(obj.id) or Number(obj).
Attr_number(obj) ==
  IF obj.kind = "num" THEN N(obj.v)
  ELSE IF obj.kind = "obj" THEN ToNumber(obj.id)
  ELSE ToNumber(obj)

\* The body of data.forEach in processData.
Attr_forEachRow(acc, row, hasOrderColumn) ==
  LET statusValueObj == CellAt(row, 0)
      orderValueObj == IF hasOrderColumn THEN CellAt(row, 1) ELSE Undef
      measureObj == IF hasOrderColumn THEN CellAt(row, 2) ELSE CellAt(row, 1)
      statusValue == Attr_statusValue(statusValueObj)
      measureValue == Attr_number(measureObj)
      hasOrder == ~IsNullish(orderValueObj) /\ ~Attr_number(orderValueObj).nan
      orderValue == Attr_number(orderValueObj).v
  IN [statusMeasures |->
        Put(acc.statusMeasures, [key |-> statusValue, count |-> measureValue]),
      statusOrders |->
        IF hasOrder /\ (~HasKey(acc.statusOrders, statusValue)
                        \/ orderValue < Get(acc.statusOrders, statusValue).order)
        THEN Put(acc.statusOrders, [key |-> statusValue, order |-> orderValue])
        ELSE acc.statusOrders]

RECURSIVE Attr_readRows(_, _, _)
Attr_readRows(acc, data, hasOrderColumn) ==
  IF data = <<>> THEN acc
  ELSE Attr_readRows(Attr_forEachRow(acc, data[1], hasOrderColumn),
                     Tail(data), hasOrderColumn)

\* Fallback: sample data (demo).
Attr_sampleData ==
  << [key |-> "Active", count |-> N(6)],
     [key |-> "Not Active", count |-> N(4)] >>

\* "Sort by order column if provided, otherwise alphabetically".
Attr_uniqueStatusValues(statusMeasures, statusOrders, hasOrderColumn) ==
  LET keys == KeysOf(statusMeasures)
      keySet == {keys[i] : i \in 1..Len(keys)}
  IN IF hasOrderColumn /\ Len(statusOrders) > 0
     THEN SortByRank(keys,
            [k \in keySet |->
               IF HasKey(statusOrders, k) THEN Get(statusOrders, k).order
               ELSE 999])
     ELSE SortByRank(keys, [k \in keySet |-> StrRank(k)])

\* A color assignment that always goes by the position of the value.
assignColorsByPosition(value, index, statusOrders, hasOrderColumn) ==
  DEFAULT_CONFIG_colors[JsMod(index, Len(DEFAULT_CONFIG_colors)) + 1]

\* assignColors(uniqueValues, config, statusOrders, hasOrderColumn)[value],
\* for the value at position index (zero-based) of uniqueValues.
assignColors(value, index, statusOrders, hasOrderColumn) ==
  LET idx == IF hasOrderColumn /\ HasKey(statusOrders, value)
             THEN JsMod(Get(statusOrders, value).order,
                        Len(DEFAULT_CONFIG_colors))
             ELSE JsMod(index, Len(DEFAULT_CONFIG_colors))
  IN IF idx >= 0 THEN DEFAULT_CONFIG_colors[idx + 1] ELSE UndefinedColor

\* processData(data, slots, colors, language, config); the center metric,
\* the title and the attribute name are display strings and are left out.
Attr_processData(data, slots) ==
  LET hasOrderColumn == SlotFilled(slots, "order")
      empty == [statusMeasures |-> <<>>, statusOrders |-> <<>>]
      State(statusMeasures, statusOrders, uniqueStatusValues) ==
        [defined |-> TRUE,
         categories |->
           [i \in 1..Len(uniqueStatusValues) |->
              [name |-> uniqueStatusValues[i],
               count |-> Get(statusMeasures, uniqueStatusValues[i]).count,
               color |-> assignColors(uniqueStatusValues[i], i - 1,
                                      statusOrders, hasOrderColumn),
               value |-> Str(uniqueStatusValues[i])]],
         total |-> SumCounts(uniqueStatusValues, statusMeasures),
         statusSlot |-> slots["category"],
         selectedCategory |-> Null]
      Read(statusMeasures, statusOrders) ==
        State(statusMeasures, statusOrders,
              Attr_uniqueStatusValues(statusMeasures, statusOrders,
                                      hasOrderColumn))
      Rows(read) ==
        Read(IF Len(read.statusMeasures) = 0 THEN Attr_sampleData
             ELSE read.statusMeasures,
             read.statusOrders)
  IN Rows(IF /\ SlotFilled(slots, "category")
             /\ SlotFilled(slots, "measure")
             /\ Len(data) > 0
          THEN Attr_readRows(empty, data, hasOrderColumn)
          ELSE empty)

(***************************************************************************)
(* Attribute donut widget: render, resize, clicks                          *)
(***************************************************************************)
Attr_emptyState(state) == JsIsZero(state.total) \/ Len(state.categories) = 0

Attr_renderState(data, slots, state) == Attr_processData(data, slots)

Attr_resizeState(state) == state

\* handleCategoryClick: state.selectedCategory = wasSelected ? null : clickedValue
Attr_newSelection(wasSelected, clickedValue) ==
  IF wasSelected THEN Null ELSE clickedValue

\* handleCategoryClick: the payload of the custom event.
Attr_customEventData(category, state) ==
  [eventType |-> "statusCategorySelected",
   category |-> category.name,
   count |-> category.count,
   totalRecords |-> state.total,
   isFiltered |-> state.selectedCategory # Null]

\* handleCategoryClick: "Send filter event to dashboard (only if category is
\* selected, not deselected)".
Attr_filterEvents(state, clickedValue) ==
  IF Truthy(state.selectedCategory) /\ Len(state.statusSlot) > 0
  THEN << sendFilterEvent(<< FilterExpr("? = ?", state.statusSlot[1],
                                         clickedValue) >>) >>
  ELSE IF ~Truthy(state.selectedCategory) THEN << sendFilterEvent(<<>>) >>
  ELSE <<>>

\* handleCategoryClick(category, state, container, ...): state is updated in
\* place.
Attr_handleCategoryClick(category, state) ==
  LET clickedValue == category.value
      wasSelected == state.selectedCategory = clickedValue
      Done(newState) ==
        [chartState |-> newState,
         trace |-> << RenderEvent(newState, Attr_emptyState(newState)),
                      sendCustomEvent(Attr_customEventData(category,
                                                           newState)) >>
                   \o Attr_filterEvents(newState, clickedValue)]
  IN Done([state EXCEPT
             !.selectedCategory = Attr_newSelection(wasSelected, clickedValue)])

(***************************************************************************)
(* Range widget with recalculation (part_002, third module)                *)
(***************************************************************************)
Range_warningColor == "#FEC235"

\* A policy whose Healthy band starts above 81.
categorizeScoreAbove(score) ==
  IF score > 810 THEN "Healthy"
  ELSE IF score >= 510 THEN "Warning"
  ELSE "Error"

\* categorizeScore(score), the score in tenths.
categorizeScore(score) ==
  IF score >= 810 THEN "Healthy"
  ELSE IF score >= 510 THEN "Warning"
  ELSE "Error"

\* Number(row[scoreIndex]) || 0
Range_scoreValue(cell) == IF ToNumber(cell).nan THEN 0 ELSE ToNumber(cell).v

RECURSIVE Range_readScores(_, _)
Range_readScores(data, scoreIndex) ==
  IF data = <<>> THEN <<>>
  ELSE << Range_scoreValue(CellAt(data[1], scoreIndex)) >>
       \o Range_readScores(Tail(data), scoreIndex)

\* Fallback: sample data (12 records for demo), in tenths.
Range_sampleScores ==
  << 950, 870, 920, 780, 650, 450, 320, 880, 910, 560, 720, 380 >>

RECURSIVE SumSeq(_)
SumSeq(s) == IF s = <<>> THEN 0 ELSE s[1] + SumSeq(Tail(s))

RECURSIVE SelectCategory(_, _)
SelectCategory(scores, cat) ==
  IF scores = <<>> THEN <<>>
  ELSE (IF categorizeScore(scores[1]) = cat THEN << scores[1] >> ELSE <<>>)
       \o SelectCategory(Tail(scores), cat)

\* An average that is truncated (Math.floor) instead of rounded.
Range_averageFloor(scores) ==
  IF Len(scores) > 0 THEN N(SumSeq(scores) \div (10 * Len(scores)))
  ELSE N(0)

\* scores.length > 0 ? Math.round(sum / scores.length) : 0
Range_average(scores) ==
  IF Len(scores) > 0 THEN N(RoundDiv(SumSeq(scores), 10 * Len(scores)))
  ELSE N(0)

Range_category(name, value, color, scores) ==
  [name |-> name, count |-> N(Len(SelectCategory(scores, value))),
   color |-> color, value |-> Str(value)]

\* The categories array with the counts of the given scores.
Range_categories(scores) ==
  << Range_category("Healthy (81-100)", "Healthy", healthyColor, scores),
     Range_category("Warning (51-80)", "Warning", Range_warningColor, scores),
     Range_category("Error (0-50)", "Error", errorColor, scores) >>

\* processData(data, slots, colors, language)
Range_processData(data, slots) ==
  LET scoreIndex == IF SlotFilled(slots, "category") THEN 1 ELSE 0
      State(scores) ==
        [defined |-> TRUE,
         categories |-> Range_categories(scores),
         total |-> N(Len(scores)),
         aggregatedScore |-> Range_average(scores),
         measureSlot |-> slots["measure"],
         allScores |-> scores,
         selectedCategory |-> Null]
      Rows(read) ==
        State(IF Len(read) = 0 THEN Range_sampleScores ELSE read)
  IN Rows(IF SlotFilled(slots, "measure") /\ Len(data) > 0
          THEN Range_readScores(data, scoreIndex)
          ELSE <<>>)

Range_emptyState(state) == JsIsZero(state.total) \/ Len(state.categories) = 0

Range_renderState(data, slots, state) == Range_processData(data, slots)

Range_resizeState(state) == state

\* renderDonutChart, mouseover: the percentage shown for a segment.
Range_percentage(state, index) ==
  IF JsGtZero(state.total)
  THEN N(RoundDiv(100 * state.categories[index].count.v, state.total.v))
  ELSE N(0)

\* handleCategoryClick: state.selectedCategory = wasSelected ? null : clickedValue
Range_newSelection(wasSelected, clickedValue) ==
  IF wasSelected THEN Null ELSE clickedValue

\* handleCategoryClick: the scores the state is recalculated from.
Range_filteredScores(state, selectedCategory) ==
  IF Truthy(selectedCategory)
  THEN SelectCategory(state.allScores, selectedCategory.s)
  ELSE state.allScores

\* handleCategoryClick: the payload of the custom event; category is the
\* entry of state.categories, read after its count was updated.
Range_customEventData(category, state) ==
  [eventType |-> "statusCategorySelected",
   category |-> category.name,
   count |-> category.count,
   totalRecords |-> state.total,
   aggregatedScore |-> state.aggregatedScore,
   isFiltered |-> state.selectedCategory # Null]

\* handleCategoryClick: the filters of a band on the score column.
Range_filters(column, clickedValue) ==
  IF clickedValue = Str("Healthy")
  THEN << FilterExpr("? >= ?", column, 81) >>
  ELSE IF clickedValue = Str("Warning")
  THEN << FilterExpr("? >= ?", column, 51), FilterExpr("? <= ?", column, 80) >>
  ELSE IF clickedValue = Str("Error")
  THEN << FilterExpr("? < ?", column, 51) >>
  ELSE <<>>

\* handleCategoryClick: "Also send filter event to dashboard".
Range_filterEvents(state, clickedValue) ==
  IF Truthy(state.selectedCategory) /\ Len(state.measureSlot) > 0
  THEN (IF Len(Range_filters(state.measureSlot[1], clickedValue)) > 0
        THEN << sendFilterEvent(Range_filters(state.measureSlot[1],
                                              clickedValue)) >>
        ELSE <<>>)
  ELSE IF ~Truthy(state.selectedCategory) THEN << sendFilterEvent(<<>>) >>
  ELSE <<>>

\* handleCategoryClick(category, state, container, ...): state and the
\* entries of state.categories are updated in place.
Range_handleCategoryClick(index, state) ==
  LET clickedValue == state.categories[index].value
      wasSelected == state.selectedCategory = clickedValue
      Done(newState) ==
        [chartState |-> newState,
         trace |-> << RenderEvent(newState, Range_emptyState(newState)),
                      sendCustomEvent(Range_customEventData(
                                        newState.categories[index],
                                        newState)) >>
                   \o Range_filterEvents(newState, clickedValue)]
      Counted(selectedCategory, filteredScores, newCategories) ==
        Done([state EXCEPT
                !.selectedCategory = selectedCategory,
                !.total = N(Len(filteredScores)),
                !.aggregatedScore = Range_average(filteredScores),
                !.categories =
                   [i \in 1..Len(state.categories) |->
                      [state.categories[i] EXCEPT
                         !.count = newCategories[i].count]]])
      Filtered(selectedCategory, filteredScores) ==
        Counted(selectedCategory, filteredScores,
                Range_categories(filteredScores))
      Selected(selectedCategory) ==
        Filtered(selectedCategory,
                 Range_filteredScores(state, selectedCategory))
  IN Selected(Range_newSelection(wasSelected, clickedValue))

(***************************************************************************)
(* Single-card widget (chart.ts)                                           *)
(***************************************************************************)
DEFAULT_COLORS ==
  << "#BA1A1A", "#FEC325", "#75BB43", "#3b82f6",
     "#8b5cf6", "#ec4899", "#06b6d4", "#84cc16" >>

\* The order and measure cells: 0 when missing, else a number, Number(obj.id)
\* or Number(obj).
Card_number(obj) ==
  IF IsNullish(obj) THEN N(0)
  ELSE IF obj.kind = "num" THEN N(obj.v)
  ELSE IF obj.kind = "obj" THEN ToNumber(obj.id)
  ELSE ToNumber(obj)

\* String(categoryObj?.id ?? categoryObj ?? 'Unknown')
Card_categoryLabel(categoryObj) ==
  IF IsNullish(categoryObj) THEN "Unknown"
  ELSE IF categoryObj.kind = "obj"
    THEN (IF ~IsNullish(categoryObj.id) THEN ToStr(categoryObj.id)
          ELSE ToStr(categoryObj))
  ELSE ToStr(categoryObj)

\* The body of data.forEach in processData: one parsed row.
Card_parseRow(row, hasOrderColumn) ==
  [categoryLabel |-> Card_categoryLabel(CellAt(row, 0)),
   orderValue |-> IF hasOrderColumn THEN Card_number(CellAt(row, 1)) ELSE N(0),
   measureValue |-> Card_number(CellAt(row, IF hasOrderColumn THEN 2 ELSE 1))]

\* The comparator (a, b) => a.orderValue - b.orderValue: a NaN difference
\* is taken as 0 by Array.prototype.sort.
Card_compare(a, b) ==
  IF a.orderValue.nan \/ b.orderValue.nan THEN 0
  ELSE a.orderValue.v - b.orderValue.v

\* One insertion of the stable sort: the row moves left past the rows the
\* comparator puts after it.
RECURSIVE Card_insertRow(_, _)
Card_insertRow(sorted, row) ==
  IF sorted = <<>> THEN << row >>
  ELSE IF Card_compare(row, sorted[Len(sorted)]) < 0
  THEN Card_insertRow(SubSeq(sorted, 1, Len(sorted) - 1), row)
         \o << sorted[Len(sorted)] >>
  ELSE sorted \o << row >>

\* parsedRows.sort((a, b) => a.orderValue - b.orderValue)
RECURSIVE Card_sortRows(_)
Card_sortRows(parsedRows) ==
  IF parsedRows = <<>> THEN <<>>
  ELSE Card_insertRow(Card_sortRows(SubSeq(parsedRows, 1, Len(parsedRows) - 1)),
                      parsedRows[Len(parsedRows)])

\* parsedRows[0] after the sort.
Card_firstRow(parsedRows) == Card_sortRows(parsedRows)[1]

Card_color(orderValue) ==
  IF orderValue.nan THEN UndefinedColor
  ELSE IF JsMod(orderValue.v, Len(DEFAULT_COLORS)) >= 0
  THEN DEFAULT_COLORS[JsMod(orderValue.v, Len(DEFAULT_COLORS)) + 1]
  ELSE UndefinedColor

\* processData(data, slots, theme, language), with the default theme colors;
\* the conditional card colors and the title are display strings and are
\* left out.
Card_processData(data, slots) ==
  LET hasOrderColumn == SlotFilled(slots, "order")
      Item(firstRow) ==
        [category |-> firstRow.categoryLabel,
         count |-> firstRow.measureValue,
         color |-> Card_color(firstRow.orderValue),
         value |-> Str(firstRow.categoryLabel),
         order |-> firstRow.orderValue]
      State(items) ==
        [defined |-> TRUE,
         items |-> items,
         total |-> items[1].count,
         categorySlot |-> slots["category"],
         selectedCategory |-> Null]
  IN State(IF /\ SlotFilled(slots, "category")
              /\ SlotFilled(slots, "measure")
              /\ Len(data) > 0
           THEN << Item(Card_firstRow(
                     [i \in 1..Len(data) |->
                        Card_parseRow(data[i], hasOrderColumn)])) >>
           ELSE << [category |-> "Sample KPI",
                    count |-> N(42),
                    color |-> DEFAULT_COLORS[1],
                    value |-> Undef,
                    order |-> N(2)] >>)

Card_renderState(data, slots, state) == Card_processData(data, slots)

Card_resizeState(state) == state

\* handleCardClick: state.selectedCategory = wasSelected ? null : clickedValue
Card_newSelection(wasSelected, clickedValue) ==
  IF wasSelected THEN Null ELSE clickedValue

\* handleCardClick: the payload of the custom event.
Card_customEventData(item, wasSelected) ==
  [eventType |-> "alertSelected",
   category |-> item.category,
   count |-> item.count,
   isFiltered |-> ~wasSelected]

\* A filter step that posts on selection only and never clears.
Card_filterOnSelectOnly(state, wasSelected, clickedValue) ==
  IF ~wasSelected /\ Len(state.categorySlot) > 0
  THEN << sendFilterEvent(<< FilterExpr("? = ?", state.categorySlot[1],
                                         clickedValue) >>) >>
  ELSE <<>>

\* handleCardClick: "Send filter event (only if category is selected, not
\* deselected)".
Card_filterEvents(state, wasSelected, clickedValue) ==
  IF ~wasSelected /\ Len(state.categorySlot) > 0
  THEN << sendFilterEvent(<< FilterExpr("? = ?", state.categorySlot[1],
                                         clickedValue) >>) >>
  ELSE IF wasSelected THEN << sendFilterEvent(<<>>) >>
  ELSE <<>>

\* handleCardClick(item, state, container, ...): state is updated in place.
Card_handleCardClick(item, state) ==
  LET clickedValue == item.value
      wasSelected == state.selectedCategory = clickedValue
      Done(newState) ==
        [chartState |-> newState,
         trace |-> << RenderEvent(newState, FALSE),
                      sendCustomEvent(Card_customEventData(item,
                                                           wasSelected)) >>
                   \o Card_filterEvents(newState, wasSelected, clickedValue)]
  IN Done([state EXCEPT
             !.selectedCategory = Card_newSelection(wasSelected, clickedValue)])

(***************************************************************************)
(* Inputs of the host                                                      *)
(***************************************************************************)
MaxRows == 2

SeqsUpTo(S, n) == UNION {[1..k -> S] : k \in 0..n}

SlotsOf(category, size, measure, order) ==
  [name \in {"category", "size", "measure", "order"} |->
     IF \/ name = "category" /\ category
        \/ name = "size" /\ size
        \/ name = "measure" /\ measure
        \/ name = "order" /\ order
     THEN Filled(name) ELSE <<>>]

NoSlots == SlotsOf(FALSE, FALSE, FALSE, FALSE)

\* The row lists with one row of a set, alone or after a given first row.
WithEdgeRow(rows, first) ==
  {<< r >> : r \in rows} \cup {<< first, r >> : r \in rows}

\* Rows [Category, Count, AvgScore] (average scores in tenths): plain rows,
\* a zero count, two rows of one category, the empty key of a cell {id: ""},
\* a non-numeric score cell, a non-numeric count cell, a missing score cell.
AggRows ==
  { << Str("Healthy"), NumCell(2), NumCell(875) >>,
    << Str("Warning"), NumCell(1), NumCell(652) >>,
    << Str("Warning"), NumCell(0), NumCell(600) >>,
    << ObjId(Str("")), NumCell(1), NumCell(400) >>,
    << Str("Healthy"), NumCell(1), Str("n/a") >>,
    << Str("Other"), Str("n/a"), Null >> }

\* Rows [Category, Order, Count, AvgScore].
AggOrderRows ==
  { << Str("Healthy"), NumCell(0), NumCell(2), NumCell(875) >>,
    << Str("Warning"), NumCell(1), NumCell(1), NumCell(652) >>,
    << Str("Warning"), NumCell(1), NumCell(0), NumCell(600) >>,
    << ObjId(Str("")), Null, NumCell(1), NumCell(400) >>,
    << Str("Healthy"), NumCell(4), NumCell(1), Str("n/a") >>,
    << Str("Other"), Str("n/a"), Str("n/a"), Null >> }

\* Rows [Category, Order, Count, AvgScore] with a negative and with a large
\* order value.
AggEdgeOrderRows ==
  { << Str("Warning"), NumCell(0 - 1), NumCell(1), NumCell(652) >>,
    << Str("Error"), NumCell(10), NumCell(3), NumCell(358) >> }

\* The rows of the example of processData's documentation:
\* ["Healthy", 0, 500, 87.5], ["Warning", 1, 300, 65.2], ["Error", 2, 200, 35.8].
AggExampleRows ==
  << << Str("Healthy"), NumCell(0), NumCell(500), NumCell(875) >>,
     << Str("Warning"), NumCell(1), NumCell(300), NumCell(652) >>,
     << Str("Error"), NumCell(2), NumCell(200), NumCell(358) >> >>

\* What the host holds for the pre-aggregated widget: with the
\* required slots filled, rows of the shape the query asks for; otherwise
\* no rows, or rows that processData must ignore.
AggInputs ==
  {[data |-> d, slots |-> SlotsOf(TRUE, TRUE, TRUE, FALSE)] :
     d \in SeqsUpTo(AggRows, MaxRows)}
  \cup {[data |-> d, slots |-> SlotsOf(TRUE, TRUE, TRUE, TRUE)] :
     d \in SeqsUpTo(AggOrderRows, MaxRows) \cup {AggExampleRows}
            \cup WithEdgeRow(AggEdgeOrderRows,
                             << Str("Healthy"), NumCell(0), NumCell(2),
                                NumCell(875) >>)
            \cup WithEdgeRow({<< Str("Error"), NumCell(1000), NumCell(3),
                                 NumCell(358) >>},
                             << Str("Other"), Null, NumCell(1),
                                NumCell(400) >>)}
  \cup {[data |-> d, slots |-> sl] :
     d \in {<<>>, << << Str("Healthy"), NumCell(2), NumCell(875) >> >>},
     sl \in {NoSlots, SlotsOf(FALSE, TRUE, TRUE, FALSE),
             SlotsOf(TRUE, FALSE, TRUE, TRUE),
             SlotsOf(TRUE, TRUE, FALSE, FALSE)}}

(***************************************************************************)
(* Actions of the pre-aggregated widget                                    *)
(***************************************************************************)
\* render({container, data, slots, ...})
AggRender ==
  /\ variant = "agg"
  /\ chartState' = Agg_renderState(host.data, host.slots, chartState)
  /\ stored' = [data |-> host.data, slots |-> host.slots]
  /\ trace' = << RenderEvent(chartState', Agg_emptyState(chartState')) >>
  /\ lastOp' = Op("render", "", 0, Undef, FALSE)
  /\ before' = Selection(chartState)
  /\ lastFilter' = LastFilter(trace', lastFilter)
  /\ UNCHANGED <<variant, host>>

\* resize({container, ...}): nothing happens without a stored state.
AggResize ==
  /\ variant = "agg"
  /\ IF chartState.defined
     THEN /\ chartState' = Agg_resizeState(chartState, stored)
          /\ trace' = << RenderEvent(chartState', Agg_emptyState(chartState')) >>
     ELSE /\ chartState' = chartState
          /\ trace' = <<>>
  /\ lastOp' = Op("resize", "", 0, Undef, FALSE)
  /\ before' = chartState
  /\ lastFilter' = LastFilter(trace', lastFilter)
  /\ UNCHANGED <<variant, host, stored>>

\* A click on the index-th element of a list of click targets whose handler
\* calls handleCategoryClick(state.categories[index], ...): a TypeError is
\* thrown on category.value when state.categories[index] is undefined.
AggClick(via, index) ==
  IF index <= Len(chartState.categories)
  THEN LET Done(category, r) ==
             /\ chartState' = r.chartState
             /\ trace' = r.trace
             /\ lastOp' = Op("click", via, index, category.value, FALSE)
       IN Done(chartState.categories[index],
               Agg_handleCategoryClick(chartState.categories[index],
                                       chartState, stored))
  ELSE /\ chartState' = chartState
       /\ trace' = <<>>
       /\ lastOp' = Op("click", via, index, Undef, TRUE)

\* addInteractionHandlers: a click on a legend item (.category-item).
AggClickLegend ==
  /\ variant = "agg"
  /\ chartState.defined
  /\ ~Agg_emptyState(chartState)
  /\ \E index \in 1..Len(chartState.categories) : AggClick("legend", index)
  /\ before' = chartState
  /\ lastFilter' = LastFilter(trace', lastFilter)
  /\ UNCHANGED <<variant, host, stored>>

\* addInteractionHandlers: a click on a donut segment (.segment path).
AggClickSegment ==
  /\ variant = "agg"
  /\ chartState.defined
  /\ ~Agg_emptyState(chartState)
  /\ \E index \in 1..Len(Agg_pieData(chartState)) : AggClick("segment", index)
  /\ before' = chartState
  /\ lastFilter' = LastFilter(trace', lastFilter)
  /\ UNCHANGED <<variant, host, stored>>

(***************************************************************************)
(* The attribute donut widget: inputs and actions                          *)
(***************************************************************************)
\* Rows [Status, Count]: plain rows, a cell {id: ""}, a zero count, a
\* missing status, a non-numeric count.
AttrRows ==
  { << Str("Active"), NumCell(6) >>,
    << Str("Not Active"), NumCell(4) >>,
    << ObjId(Str("")), NumCell(1) >>,
    << Str("Active"), NumCell(0) >>,
    << Null, Str("n/a") >> }

\* Rows [Status, Order, Count].
AttrOrderRows ==
  { << Str("Active"), NumCell(1), NumCell(6) >>,
    << Str("Not Active"), NumCell(0), NumCell(4) >>,
    << ObjId(Str("")), Null, NumCell(1) >>,
    << Str("Active"), NumCell(9), NumCell(0) >>,
    << Null, Str("n/a"), Str("n/a") >> }

\* Rows [Status, Order, Count] with a negative and with a large order value.
AttrEdgeOrderRows ==
  { << Str("Not Active"), NumCell(0 - 1), NumCell(4) >>,
    << Str("Other"), NumCell(18), NumCell(2) >> }

AttrInputs ==
  {[data |-> d, slots |-> SlotsOf(TRUE, FALSE, TRUE, FALSE)] :
     d \in SeqsUpTo(AttrRows, MaxRows)}
  \cup {[data |-> d, slots |-> SlotsOf(TRUE, FALSE, TRUE, TRUE)] :
     d \in SeqsUpTo(AttrOrderRows, MaxRows)
            \cup WithEdgeRow(AttrEdgeOrderRows,
                             << Str("Active"), NumCell(1), NumCell(6) >>)}
  \cup {[data |-> d, slots |-> sl] :
     d \in {<<>>, << << Str("Active"), NumCell(6) >> >>},
     sl \in {NoSlots, SlotsOf(FALSE, FALSE, TRUE, FALSE),
             SlotsOf(TRUE, FALSE, FALSE, TRUE)}}

\* render({container, data, slots, ...})
AttrRender ==
  /\ variant = "attr"
  /\ chartState' = Attr_renderState(host.data, host.slots, chartState)
  /\ trace' = << RenderEvent(chartState', Attr_emptyState(chartState')) >>
  /\ lastOp' = Op("render", "", 0, Undef, FALSE)
  /\ before' = Selection(chartState)
  /\ lastFilter' = LastFilter(trace', lastFilter)
  /\ UNCHANGED <<variant, host, stored>>

\* resize({container, ...})
AttrResize ==
  /\ variant = "attr"
  /\ IF chartState.defined
     THEN /\ chartState' = Attr_resizeState(chartState)
          /\ trace' = << RenderEvent(chartState', Attr_emptyState(chartState')) >>
     ELSE /\ chartState' = chartState
          /\ trace' = <<>>
  /\ lastOp' = Op("resize", "", 0, Undef, FALSE)
  /\ before' = chartState
  /\ lastFilter' = LastFilter(trace', lastFilter)
  /\ UNCHANGED <<variant, host, stored>>

\* A click on the index-th legend item or donut segment: the handler calls
\* handleCategoryClick(state.categories[index], ...).
AttrClick(via, index) ==
  LET Done(category, r) ==
        /\ chartState' = r.chartState
        /\ trace' = r.trace
        /\ lastOp' = Op("click", via, index, category.value, FALSE)
  IN Done(chartState.categories[index],
          Attr_handleCategoryClick(chartState.categories[index], chartState))

\* addInteractionHandlers: a click on a legend item (.category-item).
AttrClickLegend ==
  /\ variant = "attr"
  /\ chartState.defined
  /\ ~Attr_emptyState(chartState)
  /\ \E index \in 1..Len(chartState.categories) : AttrClick("legend", index)
  /\ before' = chartState
  /\ lastFilter' = LastFilter(trace', lastFilter)
  /\ UNCHANGED <<variant, host, stored>>

\* addInteractionHandlers: a click on a donut segment (.segment path); the
\* pie is laid out from state.categories.
AttrClickSegment ==
  /\ variant = "attr"
  /\ chartState.defined
  /\ ~Attr_emptyState(chartState)
  /\ \E index \in 1..Len(chartState.categories) : AttrClick("segment", index)
  /\ before' = chartState
  /\ lastFilter' = LastFilter(trace', lastFilter)
  /\ UNCHANGED <<variant, host, stored>>

(***************************************************************************)
(* The range widget: inputs and actions                                    *)
(***************************************************************************)
\* Score cells (tenths): one score per band, the band edges 80.5 and 50.9,
\* a non-numeric cell.
RangeCells ==
  { NumCell(950), NumCell(650), NumCell(300), NumCell(805), NumCell(509),
    Str("n/a") }

\* The twelve scores of the sample dataset as rows [Score] of the host.
RangeExampleRows ==
  [i \in 1..Len(Range_sampleScores) |-> << NumCell(Range_sampleScores[i]) >>]

\* Every score of [0, 100] to one decimal place (tenths).
ScoreCells == {NumCell(v) : v \in 0..1000}

\* Rows [Score], or [Id, Score] when the category slot is filled; one row
\* [Score] for every score of ScoreCells.
RangeInputs ==
  {[data |-> << << c >> >>, slots |-> SlotsOf(FALSE, FALSE, TRUE, FALSE)] :
     c \in ScoreCells}
  \cup {[data |-> RangeExampleRows,
         slots |-> SlotsOf(FALSE, FALSE, TRUE, FALSE)]}
  \cup
  {[data |-> [i \in 1..Len(d) |-> << d[i] >>],
    slots |-> SlotsOf(FALSE, FALSE, TRUE, FALSE)] :
     d \in SeqsUpTo(RangeCells, MaxRows)}
  \cup {[data |-> [i \in 1..Len(d) |-> << Str("Unknown"), d[i] >>],
         slots |-> SlotsOf(TRUE, FALSE, TRUE, FALSE)] :
     d \in SeqsUpTo(RangeCells, MaxRows)}
  \cup {[data |-> d, slots |-> sl] :
     d \in {<<>>, << << NumCell(950) >> >>},
     sl \in {NoSlots, SlotsOf(TRUE, FALSE, FALSE, FALSE)}}

\* render({container, data, slots, ...})
RangeRender ==
  /\ variant = "range"
  /\ chartState' = Range_renderState(host.data, host.slots, chartState)
  /\ trace' = << RenderEvent(chartState', Range_emptyState(chartState')) >>
  /\ lastOp' = Op("render", "", 0, Undef, FALSE)
  /\ before' = Selection(chartState)
  /\ lastFilter' = LastFilter(trace', lastFilter)
  /\ UNCHANGED <<variant, host, stored>>

\* resize({container, ...})
RangeResize ==
  /\ variant = "range"
  /\ IF chartState.defined
     THEN /\ chartState' = Range_resizeState(chartState)
          /\ trace' = << RenderEvent(chartState', Range_emptyState(chartState')) >>
     ELSE /\ chartState' = chartState
          /\ trace' = <<>>
  /\ lastOp' = Op("resize", "", 0, Undef, FALSE)
  /\ before' = chartState
  /\ lastFilter' = LastFilter(trace', lastFilter)
  /\ UNCHANGED <<variant, host, stored>>

\* A click on the index-th legend item or donut segment: the handler calls
\* handleCategoryClick(state.categories[index], ...).
RangeClick(via, index) ==
  LET Done(r) ==
        /\ chartState' = r.chartState
        /\ trace' = r.trace
        /\ lastOp' = Op("click", via, index,
                        chartState.categories[index].value, FALSE)
  IN Done(Range_handleCategoryClick(index, chartState))

\* addInteractionHandlers: a click on a legend item (.category-item).
RangeClickLegend ==
  /\ variant = "range"
  /\ chartState.defined
  /\ ~Range_emptyState(chartState)
  /\ \E index \in 1..Len(chartState.categories) : RangeClick("legend", index)
  /\ before' = chartState
  /\ lastFilter' = LastFilter(trace', lastFilter)
  /\ UNCHANGED <<variant, host, stored>>

\* addInteractionHandlers: a click on a donut segment (.segment path); the
\* pie is laid out from state.categories.
RangeClickSegment ==
  /\ variant = "range"
  /\ chartState.defined
  /\ ~Range_emptyState(chartState)
  /\ \E index \in 1..Len(chartState.categories) : RangeClick("segment", index)
  /\ before' = chartState
  /\ lastFilter' = LastFilter(trace', lastFilter)
  /\ UNCHANGED <<variant, host, stored>>

(***************************************************************************)
(* The single-card widget: inputs and actions                              *)
(***************************************************************************)
\* Rows [Category, Measure].
CardRows ==
  { << Str("Critical"), NumCell(7) >>,
    << ObjId(Str("Info")), NumCell(0) >>,
    << ObjId(Str("")), ObjId(NumCell(3)) >>,
    << Null, Str("n/a") >> }

\* Rows [Category, Order, Measure].
CardOrderRows ==
  { << Str("Critical"), NumCell(2), NumCell(7) >>,
    << ObjId(Str("Info")), NumCell(0), NumCell(0) >>,
    << ObjId(Str("")), ObjId(NumCell(1)), ObjId(NumCell(3)) >>,
    << Null, Null, Str("n/a") >> }

\* Rows [Category, Order, Measure] with a negative and with a large order
\* value.
CardEdgeOrderRows ==
  { << Str("Warning"), NumCell(0 - 1), NumCell(5) >>,
    << Str("Other"), NumCell(18), NumCell(2) >> }

\* Rows [Category, Order, Measure] whose order cell is not numeric.
CardTextOrderRows ==
  { << Str("Pending"), Str("n/a"), NumCell(4) >> }

CardInputs ==
  {[data |-> d, slots |-> SlotsOf(TRUE, FALSE, TRUE, FALSE)] :
     d \in SeqsUpTo(CardRows, MaxRows)}
  \cup {[data |-> d, slots |-> SlotsOf(TRUE, FALSE, TRUE, TRUE)] :
     d \in SeqsUpTo(CardOrderRows, MaxRows)
            \cup WithEdgeRow(CardEdgeOrderRows \cup CardTextOrderRows,
                             << Str("Critical"), NumCell(20), NumCell(7) >>)}
  \cup {[data |-> d, slots |-> sl] :
     d \in {<<>>, << << Str("Critical"), NumCell(7) >> >>},
     sl \in {NoSlots, SlotsOf(FALSE, FALSE, TRUE, FALSE),
             SlotsOf(TRUE, FALSE, FALSE, TRUE)}}

\* render({container, data, slots, ...})
CardRender ==
  /\ variant = "card"
  /\ chartState' = Card_renderState(host.data, host.slots, chartState)
  /\ trace' = << RenderEvent(chartState', FALSE) >>
  /\ lastOp' = Op("render", "", 0, Undef, FALSE)
  /\ before' = Selection(chartState)
  /\ lastFilter' = LastFilter(trace', lastFilter)
  /\ UNCHANGED <<variant, host, stored>>

\* resize({container, ...})
CardResize ==
  /\ variant = "card"
  /\ IF chartState.defined
     THEN /\ chartState' = Card_resizeState(chartState)
          /\ trace' = << RenderEvent(chartState', FALSE) >>
     ELSE /\ chartState' = chartState
          /\ trace' = <<>>
  /\ lastOp' = Op("resize", "", 0, Undef, FALSE)
  /\ before' = chartState
  /\ lastFilter' = LastFilter(trace', lastFilter)
  /\ UNCHANGED <<variant, host, stored>>

\* renderWidget: the click listener of the card.
CardClick ==
  /\ variant = "card"
  /\ chartState.defined
  /\ LET Done(item, r) ==
           /\ chartState' = r.chartState
           /\ trace' = r.trace
           /\ lastOp' = Op("click", "card", 1, item.value, FALSE)
     IN Done(chartState.items[1],
             Card_handleCardClick(chartState.items[1], chartState))
  /\ before' = chartState
  /\ lastFilter' = LastFilter(trace', lastFilter)
  /\ UNCHANGED <<variant, host, stored>>

(***************************************************************************)
(* buildQuery: the query the host runs to obtain the rows                  *)
(***************************************************************************)
\* buildDimension(column); the columns of the model carry no level.
buildDimension(column) ==
  [dataset_id |-> column.datasetId, column_id |-> column.columnId, level |-> 1]

\* buildMeasure(column); the columns of the model carry no aggregationFunc.
buildMeasure(column) ==
  [dataset_id |-> column.datasetId, column_id |-> column.columnId]

\* The measure of the single-card widget, aggregated by 'sum' by default.
Card_buildMeasure(column) ==
  [dataset_id |-> column.datasetId, column_id |-> column.columnId,
   aggregation |-> "sum"]

\* The query returned while a required slot is unfilled.
EmptyQuery == [dimensions |-> <<>>, measures |-> <<>>]

\* The order column as a second dimension, when its slot is filled.
OrderDimension(slots) ==
  IF SlotFilled(slots, "order") THEN << buildDimension(slots["order"][1]) >>
  ELSE <<>>

\* A buildQuery that does not look at the size slot.
Agg_buildQueryWithoutSize(slots) ==
  IF ~SlotFilled(slots, "category") \/ ~SlotFilled(slots, "measure")
  THEN EmptyQuery
  ELSE [dimensions |-> << buildDimension(slots["category"][1]) >>
                         \o OrderDimension(slots),
        measures |-> << buildMeasure(slots["measure"][1]) >>]

\* buildQuery of the pre-aggregated widget.
Agg_buildQuery(slots) ==
  IF \/ ~SlotFilled(slots, "category")
     \/ ~SlotFilled(slots, "size")
     \/ ~SlotFilled(slots, "measure")
  THEN EmptyQuery
  ELSE [dimensions |-> << buildDimension(slots["category"][1]) >>
                         \o OrderDimension(slots),
        measures |-> << buildMeasure(slots["size"][1]),
                        buildMeasure(slots["measure"][1]) >>]

\* buildQuery of the attribute widget.
Attr_buildQuery(slots) ==
  IF ~SlotFilled(slots, "category") \/ ~SlotFilled(slots, "measure")
  THEN EmptyQuery
  ELSE [dimensions |-> << buildDimension(slots["category"][1]) >>
                         \o OrderDimension(slots),
        measures |-> << buildMeasure(slots["measure"][1]) >>]

\* buildQuery of the range widget: the category column is optional.
Range_buildQuery(slots) ==
  IF ~SlotFilled(slots, "measure")
  THEN EmptyQuery
  ELSE [dimensions |-> IF SlotFilled(slots, "category")
                       THEN << buildDimension(slots["category"][1]) >>
                       ELSE <<>>,
        measures |-> << buildMeasure(slots["measure"][1]) >>]

\* buildQuery of the single-card widget.
Card_buildQuery(slots) ==
  IF ~SlotFilled(slots, "category") \/ ~SlotFilled(slots, "measure")
  THEN EmptyQuery
  ELSE [dimensions |-> << buildDimension(slots["category"][1]) >>
                         \o OrderDimension(slots),
        measures |-> << Card_buildMeasure(slots["measure"][1]) >>]

\* The value a call of buildQuery returned to the host.
QueryEvent(query) == [type |-> "query", query |-> query]

\* buildQuery({slots, ...}): returns the query, touches no container.
BuildQuery(query) ==
  /\ trace' = << QueryEvent(query) >>
  /\ lastOp' = Op("buildQuery", "", 0, Undef, FALSE)
  /\ before' = chartState
  /\ lastFilter' = LastFilter(trace', lastFilter)
  /\ UNCHANGED <<variant, host, chartState, stored>>

AggBuildQuery ==
  /\ variant = "agg"
  /\ BuildQuery(Agg_buildQuery(host.slots))

AttrBuildQuery ==
  /\ variant = "attr"
  /\ BuildQuery(Attr_buildQuery(host.slots))

RangeBuildQuery ==
  /\ variant = "range"
  /\ BuildQuery(Range_buildQuery(host.slots))

CardBuildQuery ==
  /\ variant = "card"
  /\ BuildQuery(Card_buildQuery(host.slots))

(***************************************************************************)
(* Specification                                                           *)
(***************************************************************************)
Variants == {"agg", "attr", "range", "card"}

InputsOf(v) ==
  IF v = "agg" THEN AggInputs
  ELSE IF v = "attr" THEN AttrInputs
  ELSE IF v = "range" THEN RangeInputs
  ELSE CardInputs

Init ==
  /\ variant \in Variants
  /\ host \in InputsOf(variant)
  /\ chartState = NoState
  /\ stored = [data |-> <<>>, slots |-> NoSlots]
  /\ trace = <<>>
  /\ lastOp = Op("init", "", 0, Undef, FALSE)
  /\ before = NoState
  /\ lastFilter = NoFilter

Next ==
  \/ AggRender
  \/ AggResize
  \/ AggClickLegend
  \/ AggClickSegment
  \/ AttrRender
  \/ AttrResize
  \/ AttrClickLegend
  \/ AttrClickSegment
  \/ RangeRender
  \/ RangeResize
  \/ RangeClickLegend
  \/ RangeClickSegment
  \/ CardRender
  \/ CardResize
  \/ CardClick
  \/ AggBuildQuery
  \/ AttrBuildQuery
  \/ RangeBuildQuery
  \/ CardBuildQuery

Spec == Init /\ [][Next]_vars

(***************************************************************************)
(* Properties                                                              *)
(***************************************************************************)
\* The last entry point was a click whose handler ran.
Clicked == lastOp.op = "click" /\ ~lastOp.threw

\* The positions of the messages of a type among what the last entry point did.
Posted(type) == {i \in 1..Len(trace) : trace[i].type = type}

\* The keys of the elements the widget shows.
ShownKeys(st) ==
  IF variant = "card" THEN {st.items[i].value : i \in 1..Len(st.items)}
  ELSE {st.categories[i].value : i \in 1..Len(st.categories)}

\* The sum of the count fields of a categories array.
RECURSIVE SumOfCounts(_)
SumOfCounts(categories) ==
  IF categories = <<>> THEN N(0)
  ELSE JsAdd(categories[1].count, SumOfCounts(Tail(categories)))

\* The sum of count x averageValue of a categories array (tenths).
RECURSIVE SumOfWeighted(_, _)
SumOfWeighted(categories, categoryData) ==
  IF categories = <<>> THEN N(0)
  ELSE JsAdd(JsMul(categories[1].count,
                   Get(categoryData, categories[1].name).avgScore),
             SumOfWeighted(Tail(categories), categoryData))

\* The working set of a state of the pre-aggregated widget: all categories
\* when Unselected, the selected category when Selected.
WorkingSet(st) ==
  IF st.selectedCategory = Null THEN st.categories
  ELSE SelectSeq(st.categories, LAMBDA c : c.value = st.selectedCategory)

\* round(sum(count x averageValue) / sum(count)), 0 when sum(count) is not
\* positive; NaN stands for a result that is not a number.
ScoreOver(categories, categoryData) ==
  IF JsGtZero(SumOfCounts(categories))
  THEN (IF SumOfWeighted(categories, categoryData).nan THEN NaN
        ELSE N(RoundDiv(SumOfWeighted(categories, categoryData).v,
                        10 * SumOfCounts(categories).v)))
  ELSE N(0)

\* round(count / overallTotal x 100), 0 when overallTotal is not positive.
Share(count, overallTotal) ==
  IF JsGtZero(overallTotal)
  THEN (IF count.nan THEN NaN ELSE N(RoundDiv(100 * count.v, overallTotal.v)))
  ELSE N(0)

\* The total, the score and the categories array of a state.
Aggregate(st) ==
  [total |-> st.total, aggregatedScore |-> st.aggregatedScore,
   categories |-> st.categories]

\* C1: the selection state machine of the click handlers.  A click on key k
\* in Unselected leads to Selected(k), a click on k in Selected(k) leads to
\* Unselected, a click on j in Selected(k) leads directly to Selected(j), and
\* in every state what is selected is nothing or one key the widget shows.
C1_SelectionStateMachine ==
  /\ chartState.defined =>
       chartState.selectedCategory \in {Null} \cup ShownKeys(chartState)
  /\ Clicked =>
       /\ before.selectedCategory = Null =>
            chartState.selectedCategory = lastOp.target
       /\ before.selectedCategory = lastOp.target =>
            chartState.selectedCategory = Null
       /\ before.selectedCategory \notin {Null, lastOp.target} =>
            chartState.selectedCategory = lastOp.target

\* A click on another key while a key was selected.
C1_Switched ==
  /\ Clicked
  /\ before.selectedCategory \notin {Null, lastOp.target}
  /\ chartState.selectedCategory = lastOp.target

\* C2: in every state of the pre-aggregated widget overallTotal is the sum
\* of count over all entries of the categories array, and a click (select,
\* switch, deselect) leaves its value as it was.
C2_TotalInvariant ==
  (variant = "agg" /\ chartState.defined) =>
    /\ chartState.overallTotal = SumOfCounts(chartState.categories)
    /\ Clicked => chartState.overallTotal = before.overallTotal

\* A selection has narrowed total below a positive overallTotal.
C2_Narrowed ==
  /\ variant = "agg"
  /\ Clicked
  /\ chartState.selectedCategory # Null
  /\ ~chartState.overallTotal.nan
  /\ ~chartState.total.nan
  /\ chartState.total.v > 0
  /\ chartState.total.v < chartState.overallTotal.v

\* C3: toggle idempotence.  When a click on k in Unselected is followed by a
\* click on k, the total, the score and the categories array are again those
\* of the state before the first click, in the pre-aggregated widget and in
\* the range widget.
C3_ToggleIdempotence ==
  [][ ( /\ variant \in {"agg", "range"}
        /\ Clicked
        /\ before.selectedCategory = Null
        /\ lastOp'.op = "click"
        /\ ~lastOp'.threw
        /\ lastOp'.target = lastOp.target )
      => Aggregate(chartState') = Aggregate(before) ]_vars

\* The range widget after the second click of a toggle: the selection is
\* gone and the total is back above the narrowed one.
C3_ToggledBack ==
  /\ variant = "range"
  /\ Clicked
  /\ before.selectedCategory = lastOp.target
  /\ chartState.selectedCategory = Null
  /\ chartState.total.v > before.total.v
  /\ before.total.v > 0

\* C4: in every state of the pre-aggregated widget aggregatedScore is
\* round(sum(count x averageValue) / sum(count)) over the working set, 0 when
\* sum(count) is not positive, and it is a number.
C4_WeightedScore ==
  (variant = "agg" /\ chartState.defined) =>
    /\ ~chartState.aggregatedScore.nan
    /\ chartState.aggregatedScore =
         ScoreOver(WorkingSet(chartState), chartState.allCategoryData)

\* C5: the percentage shown for a category is round(the category's unfiltered
\* count / overallTotal x 100), in Unselected and in Selected states, in the
\* pre-aggregated widget and in the range widget.
C5_PercentageOfOverallTotal ==
  /\ (variant = "agg" /\ chartState.defined /\ ~Agg_emptyState(chartState)) =>
       \A i \in 1..Len(Agg_pieData(chartState)) :
         Agg_pieData(chartState)[i].name # "__empty__" =>
           Agg_percentage(chartState, Agg_pieData(chartState)[i]) =
             Share(Get(chartState.allCategoryData,
                       Agg_pieData(chartState)[i].name).count,
                   SumOfCounts(chartState.categories))
  /\ (variant = "range" /\ chartState.defined
        /\ ~Range_emptyState(chartState)) =>
       \A i \in 1..Len(chartState.categories) :
         Range_percentage(chartState, i) =
           Share(N(Len(SelectSeq(chartState.allScores,
                     LAMBDA x : Str(categorizeScore(x)) =
                                  chartState.categories[i].value))),
                 N(Len(chartState.allScores)))

\* C6: a render leaves the widget Unselected, with the unfiltered total and
\* the score over all categories, whatever was selected before the call.
C6_RenderResetsSelection ==
  lastOp.op = "render" =>
    /\ chartState.selectedCategory = Null
    /\ variant = "agg" =>
         /\ chartState.total = SumOfCounts(chartState.categories)
         /\ chartState.total = chartState.overallTotal
         /\ chartState.aggregatedScore =
              ScoreOver(chartState.categories, chartState.allCategoryData)
    /\ variant = "attr" =>
         chartState.total = SumOfCounts(chartState.categories)
    /\ variant = "range" =>
         /\ chartState.total = N(Len(chartState.allScores))
         /\ chartState.total = SumOfCounts(chartState.categories)
         /\ chartState.aggregatedScore =
              IF Len(chartState.allScores) > 0
              THEN N(RoundDiv(SumSeq(chartState.allScores),
                              10 * Len(chartState.allScores)))
              ELSE N(0)
    /\ variant = "card" => chartState.total = chartState.items[1].count

\* A render while a category was selected.
C6_RenderedOverSelection ==
  /\ lastOp.op = "render"
  /\ before.defined
  /\ before.selectedCategory # Null

\* C7: a resize leaves the held state as the last render or click left it
\* (selection, categories, totals, score), posts no message, and does nothing
\* when the container was never rendered.
C7_ResizeKeepsState ==
  lastOp.op = "resize" =>
    /\ chartState = before
    /\ Posted("customEvent") = {}
    /\ Posted("setFilter") = {}
    /\ ~before.defined => trace = <<>>
    /\ before.defined =>
         /\ Len(trace) = 1
         /\ trace[1].type = "renderWidget"
         /\ trace[1].state = before

\* A resize while a category is selected.
C7_ResizedWhileSelected ==
  /\ lastOp.op = "resize"
  /\ chartState.defined
  /\ chartState.selectedCategory # Null
  /\ before.selectedCategory = chartState.selectedCategory

\* C8: a click that takes the widget to Unselected posts a setFilter message
\* with an empty filters list and a customEvent message with isFiltered false.
C8_DeselectClearsFilter ==
  (Clicked /\ chartState.selectedCategory = Null) =>
    /\ Posted("setFilter") # {}
    /\ \A i \in Posted("setFilter") : trace[i].filters = <<>>
    /\ Posted("customEvent") # {}
    /\ \A i \in Posted("customEvent") : trace[i].data.isFiltered = FALSE

\* A re-click of the selected card.
C8_Deselected ==
  /\ variant = "card"
  /\ Clicked
  /\ before.selectedCategory = lastOp.target
  /\ chartState.selectedCategory = Null

\* C9: a click that changes the selection posts both a customEvent message
\* and a setFilter message, in every variant and slot configuration.
C9_BothMessagesPosted ==
  (Clicked /\ chartState.selectedCategory # before.selectedCategory) =>
    /\ Posted("customEvent") # {}
    /\ Posted("setFilter") # {}

\* C10: within a click the widget is re-rendered from the new state, then the
\* customEvent is posted, then the setFilter; totalRecords and aggregatedScore
\* of the customEvent are those of the state after the click.
C10_ClickOrder ==
  Clicked =>
    /\ Len(trace) \in {2, 3}
    /\ trace[1].type = "renderWidget"
    /\ trace[1].state = chartState
    /\ trace[2].type = "customEvent"
    /\ Len(trace) = 3 => trace[3].type = "setFilter"
    /\ variant \in {"agg", "attr", "range"} =>
         trace[2].data.totalRecords = chartState.total
    /\ variant \in {"agg", "range"} =>
         trace[2].data.aggregatedScore = chartState.aggregatedScore

\* A click of the pre-aggregated widget that changed total and score and
\* posted all three steps.
C10_ClickChangedNumbers ==
  /\ variant = "agg"
  /\ Clicked
  /\ Len(trace) = 3
  /\ chartState.total # before.total
  /\ chartState.aggregatedScore # before.aggregatedScore

\* The filter expressions of the setFilter messages the last entry point
\* posted.
PostedFilters ==
  {trace[i].filters[j] :
     <<i, j>> \in {<<m, n>> \in (1..Len(trace)) \X (1..3) :
                     /\ trace[m].type = "setFilter"
                     /\ n <= Len(trace[m].filters)}}

\* C11: every filter expression of every setFilter message has an expression
\* among "? = ?", "? >= ?", "? <= ?", "? between ?", exactly two parameters,
\* the first being the column reference {column_id, dataset_id}, and the
\* properties {origin: "filterFromVizItem", type: "where"}.
C11_FilterWireShape ==
  \A f \in PostedFilters :
    /\ f.expression \in {"? = ?", "? >= ?", "? <= ?", "? between ?"}
    /\ Len(f.parameters) = 2
    /\ DOMAIN f.parameters[1] = {"column_id", "dataset_id"}
    /\ f.properties = [origin |-> "filterFromVizItem", type |-> "where"]

\* C11 as amended: every filter expression of every setFilter message has an
\* expression among "? = ?", "? >= ?", "? <= ?", "? < ?", "? between ?",
\* exactly two parameters, the first being the column reference
\* {column_id, dataset_id}, and the properties
\* {origin: "filterFromVizItem", type: "where"}.
C11_FilterWireShapeWithLess ==
  \A f \in PostedFilters :
    /\ f.expression \in {"? = ?", "? >= ?", "? <= ?", "? < ?", "? between ?"}
    /\ Len(f.parameters) = 2
    /\ DOMAIN f.parameters[1] = {"column_id", "dataset_id"}
    /\ f.properties = [origin |-> "filterFromVizItem", type |-> "where"]

\* A click that posted two filter expressions in one setFilter message.
C11_TwoExpressionsPosted ==
  /\ Clicked
  /\ \E i \in Posted("setFilter") : Len(trace[i].filters) = 2

\* C12: every customEvent message posted by a click carries the fields
\* eventType, category, count, totalRecords and isFiltered; isFiltered is true
\* exactly when a category is selected after the click, and totalRecords is
\* the total of the state after the click.
C12_CustomEventPayload ==
  Clicked =>
    \A i \in Posted("customEvent") :
      /\ {"eventType", "category", "count", "totalRecords", "isFiltered"}
           \subseteq DOMAIN trace[i].data
      /\ trace[i].data.isFiltered = (chartState.selectedCategory # Null)
      /\ trace[i].data.totalRecords = chartState.total

\* A click on the card posted its customEvent message.
C12_CardEventPosted ==
  /\ variant = "card"
  /\ Clicked
  /\ Posted("customEvent") # {}
  /\ chartState.selectedCategory # Null

\* The number of the scores between lo and hi (tenths).
InBand(scores, lo, hi) ==
  Len(SelectSeq(scores, LAMBDA x : lo <= x /\ x <= hi))

\* C13: the range policy.  For the scores of [0, 100] of a run every score
\* is counted in exactly one band: a score >= 81 in Healthy, a score from 51
\* to 80 in Warning, a score <= 50 in Error (so 80 is Warning, 81 Healthy,
\* 50 Error, 51 Warning), and the counts of the bands sum to the number of
\* rows.
C13_RangePolicyPartition ==
  ( /\ variant = "range"
    /\ lastOp.op = "render"
    /\ \A i \in 1..Len(chartState.allScores) :
         chartState.allScores[i] \in 0..1000 ) =>
    /\ chartState.categories[1].value = Str("Healthy")
    /\ chartState.categories[2].value = Str("Warning")
    /\ chartState.categories[3].value = Str("Error")
    /\ chartState.categories[1].count.v >=
         InBand(chartState.allScores, 810, 1000)
    /\ chartState.categories[2].count.v >=
         InBand(chartState.allScores, 510, 800)
    /\ chartState.categories[3].count.v >=
         InBand(chartState.allScores, 0, 500)
    /\ SumOfCounts(chartState.categories) = N(Len(chartState.allScores))
    /\ (SlotFilled(host.slots, "measure") /\ Len(host.data) > 0) =>
         Len(chartState.allScores) = Len(host.data)
    /\ host.data = << << NumCell(800) >> >> =>
         chartState.categories[2].count = N(1)
    /\ host.data = << << NumCell(810) >> >> =>
         chartState.categories[1].count = N(1)
    /\ host.data = << << NumCell(500) >> >> =>
         chartState.categories[3].count = N(1)
    /\ host.data = << << NumCell(510) >> >> =>
         chartState.categories[2].count = N(1)

\* A run over the single score 81, counted as Healthy.
C13_EdgeScoreCounted ==
  /\ variant = "range"
  /\ lastOp.op = "render"
  /\ host.data = << << NumCell(810) >> >>
  /\ chartState.allScores = << 810 >>
  /\ chartState.categories[1].count = N(1)

\* The average values (tenths) of the working set of a state of the
\* pre-aggregated widget.
WorkingAverages(st) ==
  {Get(st.allCategoryData, WorkingSet(st)[i].name).avgScore :
     i \in 1..Len(WorkingSet(st))}

\* The counts and the average values of the working set are numbers.
WorkingSetNumeric(st) ==
  /\ \A a \in WorkingAverages(st) : ~a.nan
  /\ \A i \in 1..Len(WorkingSet(st)) :
       /\ ~WorkingSet(st)[i].count.nan
       /\ WorkingSet(st)[i].count.v >= 0

\* C14 as stated: in every state of the pre-aggregated widget with a
\* non-empty working set of numeric counts and average values the score lies
\* between the least and the greatest average value of the working set (the
\* score compared in tenths).
C14_WeightedAverageBounds ==
  (variant = "agg" /\ chartState.defined
     /\ Len(WorkingSet(chartState)) > 0
     /\ WorkingSetNumeric(chartState)) =>
    /\ ~chartState.aggregatedScore.nan
    /\ \E a \in WorkingAverages(chartState) :
         a.v <= 10 * chartState.aggregatedScore.v
    /\ \E a \in WorkingAverages(chartState) :
         10 * chartState.aggregatedScore.v <= a.v

\* C14 as amended: for a non-empty working set of numeric average values and
\* non-negative counts, the score lies between the rounded least and the
\* rounded greatest average value when the counts sum to a positive number,
\* and is 0 when they sum to zero.
C14_RoundedAverageBounds ==
  (variant = "agg" /\ chartState.defined
     /\ Len(WorkingSet(chartState)) > 0
     /\ WorkingSetNumeric(chartState)) =>
    /\ ~chartState.aggregatedScore.nan
    /\ IF JsGtZero(SumOfCounts(WorkingSet(chartState)))
       THEN /\ \E a \in WorkingAverages(chartState) :
                 RoundDiv(a.v, 10) <= chartState.aggregatedScore.v
            /\ \E a \in WorkingAverages(chartState) :
                 chartState.aggregatedScore.v <= RoundDiv(a.v, 10)
       ELSE chartState.aggregatedScore = N(0)

\* A score strictly between the rounded average values of two categories.
C14_ScoreBetweenAverages ==
  /\ variant = "agg"
  /\ chartState.defined
  /\ chartState.selectedCategory = Null
  /\ WorkingSetNumeric(chartState)
  /\ \E a \in WorkingAverages(chartState) :
       RoundDiv(a.v, 10) < chartState.aggregatedScore.v
  /\ \E a \in WorkingAverages(chartState) :
       chartState.aggregatedScore.v < RoundDiv(a.v, 10)

\* The pre-aggregated widget holds the example rows with the category,
\* order, size and measure slots filled.
ExampleLoaded ==
  /\ variant = "agg"
  /\ chartState.defined
  /\ host = [data |-> AggExampleRows, slots |-> SlotsOf(TRUE, TRUE, TRUE, TRUE)]

\* The names and the colors of a categories array, in display order.
NamesOf(categories) == [i \in 1..Len(categories) |-> categories[i].name]
ColorsOf(categories) == [i \in 1..Len(categories) |-> categories[i].color]

C16_ExampleClickHealthy ==
  ( /\ ExampleLoaded
    /\ Clicked
    /\ lastOp.target = Str("Healthy")
    /\ before.selectedCategory # Str("Healthy") ) =>
    /\ chartState.selectedCategory = Str("Healthy")
    /\ chartState.total = N(500)
    /\ chartState.aggregatedScore = N(88)
    /\ chartState.overallTotal = N(1000)
    /\ before.overallTotal = N(1000)
    /\ Agg_pieData(chartState)[1].name = "Healthy"
    /\ Agg_percentage(chartState, Agg_pieData(chartState)[1]) = N(50)

\* Healthy was clicked in the example while nothing was selected.
C16_HealthyClicked ==
  /\ ExampleLoaded
  /\ Clicked
  /\ lastOp.target = Str("Healthy")
  /\ before.selectedCategory = Null
  /\ chartState.selectedCategory = Str("Healthy")

\* The counts of a categories array, in display order.
CountsOf(categories) == [i \in 1..Len(categories) |-> categories[i].count]

\* The range widget was rendered over the twelve scores 95, 87, 92, 78, 65,
\* 45, 32, 88, 91, 56, 72, 38, as rows of the host or as the sample dataset.
TwelveScoresRendered ==
  /\ variant = "range"
  /\ lastOp.op = "render"
  /\ chartState.allScores = Range_sampleScores

\* C17 as stated: over the twelve scores processData counts Healthy 6,
\* Warning 4, Error 2 and gives the score 72.
C17_TwelveScores ==
  TwelveScoresRendered =>
    /\ CountsOf(chartState.categories) = << N(6), N(4), N(2) >>
    /\ chartState.aggregatedScore = N(72)

\* C17 as amended: over the twelve scores processData counts Healthy 5
\* (95, 87, 92, 88, 91), Warning 4 (78, 65, 56, 72), Error 3 (45, 32, 38),
\* total 12, and gives the score round(839 / 12) = round(69.9) = 70.
C17_TwelveScoresCounted ==
  TwelveScoresRendered =>
    /\ NamesOf(chartState.categories) =
         << "Healthy (81-100)", "Warning (51-80)", "Error (0-50)" >>
    /\ CountsOf(chartState.categories) = << N(5), N(4), N(3) >>
    /\ chartState.total = N(12)
    /\ chartState.aggregatedScore = N(70)
    /\ chartState.aggregatedScore = N(RoundDiv(839, 12))

\* The twelve scores came as rows of the host.
C17_TwelveRowsRendered ==
  /\ TwelveScoresRendered
  /\ host.data = RangeExampleRows
  /\ SlotFilled(host.slots, "measure")

\* The slots processData requires before it reads the rows.
RequiredSlots ==
  IF variant = "agg" THEN {"category", "size", "measure"}
  ELSE IF variant = "range" THEN {"measure"}
  ELSE {"category", "measure"}

\* The host passes no rows, or leaves a required slot unfilled.
NothingToRead ==
  \/ Len(host.data) = 0
  \/ \E name \in RequiredSlots : ~SlotFilled(host.slots, name)

\* C18: a render with no rows or with a required slot unfilled shows the
\* sample dataset of the variant, never an empty list, and throws nothing:
\* Healthy 6 (87), Warning 4 (65), Error 2 (35) in the pre-aggregated widget,
\* Active 6 and Not Active 4 in the attribute widget, the twelve sample scores
\* in the range widget, 'Sample KPI' 42 in the single-card widget.
C18_FallbackSample ==
  (lastOp.op = "render" /\ NothingToRead) =>
    /\ ~lastOp.threw
    /\ chartState.defined
    /\ variant = "agg" =>
         /\ NamesOf(chartState.categories) = <<"Healthy", "Warning", "Error">>
         /\ CountsOf(chartState.categories) = << N(6), N(4), N(2) >>
         /\ [i \in 1..3 |-> Get(chartState.allCategoryData,
                                chartState.categories[i].name).avgScore]
              = << N(870), N(650), N(350) >>
    /\ variant = "attr" =>
         /\ NamesOf(chartState.categories) = <<"Active", "Not Active">>
         /\ CountsOf(chartState.categories) = << N(6), N(4) >>
    /\ variant = "range" =>
         /\ Len(chartState.categories) = 3
         /\ chartState.allScores =
              << 950, 870, 920, 780, 650, 450, 320, 880, 910, 560, 720, 380 >>
         /\ chartState.total = N(12)
    /\ variant = "card" =>
         /\ Len(chartState.items) = 1
         /\ chartState.items[1].category = "Sample KPI"
         /\ chartState.items[1].count = N(42)

\* The pre-aggregated widget was rendered with rows but without the
\* category slot.
C18_RowsWithoutSlot ==
  /\ variant = "agg"
  /\ lastOp.op = "render"
  /\ Len(host.data) > 0
  /\ ~SlotFilled(host.slots, "category")
  /\ Len(chartState.categories) = 3

\* The hex strings of the palettes and of the name-to-color tables.
PaletteColors ==
  {healthyColor, warningColor, errorColor, Range_warningColor}
  \cup {DEFAULT_CONFIG_colors[i] : i \in 1..Len(DEFAULT_CONFIG_colors)}
  \cup {DEFAULT_COLORS[i] : i \in 1..Len(DEFAULT_COLORS)}

\* The colors of the elements a state shows.
ShownColors(st) ==
  IF variant = "card" THEN {st.items[i].color : i \in 1..Len(st.items)}
  ELSE {st.categories[i].color : i \in 1..Len(st.categories)}

\* C19: in every state the color of every category is one of the hex strings
\* of the palette or of the name-to-color table, whatever order values the
\* host supplies.
C19_ColorsFromPalette ==
  chartState.defined => ShownColors(chartState) \subseteq PaletteColors

\* A category with an order value beyond the palette took a palette color.
C19_LargeOrderColored ==
  /\ variant = "attr"
  /\ chartState.defined
  /\ \E i \in 1..Len(host.data) : CellAt(host.data[i], 1) = NumCell(18)
  /\ SlotFilled(host.slots, "order")
  /\ \E i \in 1..Len(chartState.categories) :
       /\ chartState.categories[i].name = "Other"
       /\ chartState.categories[i].color = DEFAULT_CONFIG_colors[3]

\* The order map processData builds from an input: categoryOrders of the
\* pre-aggregated widget.
AggOrderMap(input) ==
  IF /\ SlotFilled(input.slots, "category")
     /\ SlotFilled(input.slots, "size")
     /\ SlotFilled(input.slots, "measure")
     /\ Len(input.data) > 0
  THEN Agg_readRows([categoryData |-> <<>>, categoryOrders |-> <<>>],
                    input.data,
                    SlotFilled(input.slots, "order")).categoryOrders
  ELSE << >>

\* The order map processData builds from an input: statusOrders of the
\* attribute widget.
AttrOrderMap(input) ==
  IF /\ SlotFilled(input.slots, "category")
     /\ SlotFilled(input.slots, "measure")
     /\ Len(input.data) > 0
  THEN Attr_readRows([statusMeasures |-> <<>>, statusOrders |-> <<>>],
                     input.data,
                     SlotFilled(input.slots, "order")).statusOrders
  ELSE << >>

OrderMapOf(input) ==
  IF variant = "agg" THEN AggOrderMap(input) ELSE AttrOrderMap(input)

\* The entry of a key in an order map: the order value, or nothing.
OrderEntry(orders, key) ==
  IF HasKey(orders, key) THEN << Get(orders, key).order >> ELSE << >>

\* What a run shows of its colors: for every category its key, its entry in
\* the order map and its color.
ColorFacts(categories, orders) ==
  {<< categories[i].name, OrderEntry(orders, categories[i].name),
      categories[i].color >> : i \in 1..Len(categories)}

\* The color facts of the renders of every input of the pre-aggregated
\* widget, and of the attribute widget.
AggColorFacts ==
  UNION {ColorFacts(Agg_renderState(input.data, input.slots, NoState).categories,
                    AggOrderMap(input)) : input \in AggInputs}
AttrColorFacts ==
  UNION {ColorFacts(Attr_renderState(input.data, input.slots, NoState).categories,
                    AttrOrderMap(input)) : input \in AttrInputs}

\* Two runs agree in color wherever they agree in key and in order-map entry.
SameColors(facts, otherFacts) ==
  \A f \in facts :
    \A g \in otherFacts :
      (f[1] = g[1] /\ f[2] = g[2]) => f[3] = g[3]

\* C20: color stability.  The colors of a render are those of any other
\* render of the same input, and a category with the same key and the same
\* order-map entry has the same color in a render of any other input,
\* whichever other categories that input holds.
C20_ColorStability ==
  (variant \in {"agg", "attr"} /\ lastOp.op = "render") =>
    SameColors(ColorFacts(chartState.categories, OrderMapOf(host)),
               IF variant = "agg" THEN AggColorFacts ELSE AttrColorFacts)

\* C20 as amended: in the pre-aggregated widget a category with the same key
\* and the same order-map entry (or none in both runs) has the same color in
\* the renders of any two inputs; in the attribute widget this holds for a
\* category that has an order-map entry, and a category without one takes
\* the palette color of its position in the sorted list of keys.
C20_ColorByKeyAndOrder ==
  /\ (variant = "agg" /\ lastOp.op = "render") =>
       SameColors(ColorFacts(chartState.categories, OrderMapOf(host)),
                  AggColorFacts)
  /\ (variant = "attr" /\ lastOp.op = "render") =>
       /\ SameColors({f \in ColorFacts(chartState.categories,
                                       OrderMapOf(host)) : f[2] # << >>},
                     AttrColorFacts)
       /\ \A i \in 1..Len(chartState.categories) :
            OrderEntry(OrderMapOf(host), chartState.categories[i].name) = << >>
            => chartState.categories[i].color =
                 DEFAULT_CONFIG_colors[((i - 1) % Len(DEFAULT_CONFIG_colors)) + 1]

\* A category of the attribute widget with an order-map entry that another
\* input holds with the same entry among a different number of categories.
C20_SameEntryOtherCompany ==
  /\ variant = "attr"
  /\ lastOp.op = "render"
  /\ \E other \in AttrInputs :
       /\ Len(Attr_renderState(other.data, other.slots, NoState).categories)
            # Len(chartState.categories)
       /\ \E f \in ColorFacts(chartState.categories, AttrOrderMap(host)) :
            /\ f[2] # << >>
            /\ f \in ColorFacts(
                       Attr_renderState(other.data, other.slots,
                                        NoState).categories,
                       AttrOrderMap(other))

\* The place of a name among the fixed names Healthy, Warning, Error; 4 for
\* every other name.
FixedRank(name) ==
  IF name = "Healthy" THEN 1
  ELSE IF name = "Warning" THEN 2
  ELSE IF name = "Error" THEN 3
  ELSE 4

\* The order value the comparator uses for a key: its entry, or 999.
OrderRank(orders, key) ==
  IF HasKey(orders, key) THEN Get(orders, key).order ELSE 999

RenderOf(v, data, slots) ==
  IF v = "agg" THEN Agg_renderState(data, slots, NoState)
  ELSE IF v = "attr" THEN Attr_renderState(data, slots, NoState)
  ELSE IF v = "range" THEN Range_renderState(data, slots, NoState)
  ELSE Card_renderState(data, slots, NoState)

\* Per variant, the slot configurations under which processData ignores the
\* rows: every row list the host passes with them renders as no rows do.
RowsIgnored ==
  [v \in Variants |->
     {sl \in {input.slots : input \in InputsOf(v)} :
        \A input \in InputsOf(v) :
          input.slots = sl =>
            RenderOf(v, input.data, sl) = RenderOf(v, <<>>, sl)}]

\* The query is the empty one: no dimension and no measure.
IsEmptyQuery(query) ==
  Len(query.dimensions) = 0 /\ Len(query.measures) = 0

\* C22: buildQuery returns empty dimensions and empty measures exactly when a
\* slot the variant requires (category, size and measure in the
\* pre-aggregated widget; category and measure in the attribute and the
\* single-card widget; measure in the range widget) is unfilled; it raises
\* nothing and changes neither the chart state nor the stored rows; and
\* these are exactly the slot configurations under which processData
\* ignores the rows and shows the sample dataset.
C22_EmptyQuery ==
  [][lastOp'.op = "buildQuery" =>
       /\ ~lastOp'.threw
       /\ chartState' = chartState
       /\ stored' = stored
       /\ Len(trace') = 1
       /\ trace'[1].type = "query"
       /\ IsEmptyQuery(trace'[1].query) <=>
            \E name \in RequiredSlots : ~SlotFilled(host.slots, name)
       /\ IsEmptyQuery(trace'[1].query) <=>
            host.slots \in RowsIgnored[variant]]_vars

\* buildQuery of the pre-aggregated widget returned the empty query after a
\* render, the size slot alone being unfilled.
C22_QueryWithoutSize ==
  /\ variant = "agg"
  /\ lastOp.op = "buildQuery"
  /\ chartState.defined
  /\ SlotFilled(host.slots, "category")
  /\ SlotFilled(host.slots, "measure")
  /\ ~SlotFilled(host.slots, "size")
  /\ IsEmptyQuery(trace[1].query)

\* The rows of the host are read with an order column.
OrderColumnRead ==
  /\ SlotFilled(host.slots, "order")
  /\ Len(host.data) > 0
  /\ \A name \in RequiredSlots : SlotFilled(host.slots, name)

\* The key a row resolves to and the number its order cell coerces to, in
\* the pre-aggregated and in the attribute widget.
RowKey(row) ==
  IF variant = "agg" THEN extractCategoryName(CellAt(row, 0))
  ELSE Attr_statusValue(CellAt(row, 0))
RowOrder(row) ==
  IF variant = "agg" THEN extractValue(CellAt(row, 1), "number")
  ELSE Attr_number(CellAt(row, 1))

\* The row has an order cell that coerces to a number other than NaN.
NumericOrder(row) ==
  /\ ~IsNullish(CellAt(row, 1))
  /\ ~RowOrder(row).nan

\* The rows of the single-card widget as processData parses them.
CardParsedRows ==
  [i \in 1..Len(host.data) |-> Card_parseRow(host.data[i], TRUE)]

\* C23: a row whose order cell coerces to NaN contributes no entry to the
\* order map, and no NaN order value reaches the sort comparator or the color
\* index: every entry of the order map of the pre-aggregated and of the
\* attribute widget is the numeric order cell of a row of its key, and in
\* the single-card widget neither a row that is compared nor the row that
\* is shown has a NaN order value.
C23_NoNaNOrder ==
  (lastOp.op = "render" /\ OrderColumnRead) =>
    /\ variant \in {"agg", "attr"} =>
         \A k \in 1..Len(OrderMapOf(host)) :
           \E i \in 1..Len(host.data) :
             /\ RowKey(host.data[i]) = OrderMapOf(host)[k].key
             /\ NumericOrder(host.data[i])
             /\ RowOrder(host.data[i]).v = OrderMapOf(host)[k].order
    /\ variant = "card" =>
         /\ ~chartState.items[1].order.nan
         /\ Len(host.data) > 1 =>
              \A i \in 1..Len(host.data) : ~CardParsedRows[i].orderValue.nan

\* The single-card widget rendered a single row whose order cell is text:
\* the card shows it with a NaN order value and an undefined color.
C23_TextOrderRendered ==
  /\ variant = "card"
  /\ lastOp.op = "render"
  /\ OrderColumnRead
  /\ Len(host.data) = 1
  /\ CellAt(host.data[1], 1) = Str("n/a")
  /\ chartState.items[1].order.nan
  /\ chartState.items[1].color = UndefinedColor

\* C24: no click is rejected or fails: a click on a legend item or on a donut
\* segment path (on the card in the single-card widget), with or without a
\* selection and with any number of categories, raises nothing and leaves
\* the widget with nothing selected or with one key of its data selected.
C24_ClickCompletes ==
  lastOp.op = "click" =>
    /\ ~lastOp.threw
    /\ chartState.defined
    /\ chartState.selectedCategory \in {Null} \cup ShownKeys(chartState)

\* The click listener of the second segment path ran while the only category
\* of the pre-aggregated widget was selected, and raised.
C24_RemainderClickRaised ==
  /\ variant = "agg"
  /\ lastOp.op = "click"
  /\ lastOp.via = "segment"
  /\ lastOp.index = 2
  /\ lastOp.threw
  /\ Len(chartState.categories) = 1
  /\ chartState.selectedCategory = chartState.categories[1].value

\* The entry of the pie that the clicked segment path displayed.
ClickedSlice == Agg_pieData(before)[lastOp.index]

\* C25: in the pre-aggregated widget a click on a donut segment is processed
\* as a click on the category the segment displays, with or without a
\* selection (a click on the slice of the selected category deselects it),
\* and a click on the transparent '__empty__' remainder changes no state
\* and posts no message.
C25_SegmentClick ==
  (variant = "agg" /\ lastOp.op = "click" /\ lastOp.via = "segment") =>
    /\ ~lastOp.threw
    /\ ClickedSlice.name # "__empty__" =>
         /\ lastOp.target = ClickedSlice.value
         /\ chartState =
              Agg_handleCategoryClick(ClickedSlice, before, stored).chartState
         /\ trace = Agg_handleCategoryClick(ClickedSlice, before, stored).trace
         /\ before.selectedCategory = ClickedSlice.value =>
              chartState.selectedCategory = Null
    /\ ClickedSlice.name = "__empty__" =>
         /\ chartState = before
         /\ trace = <<>>

\* A click on the slice of the selected category selected another category,
\* the first of the categories array.
C25_SliceClickSwitched ==
  /\ variant = "agg"
  /\ lastOp.op = "click"
  /\ lastOp.via = "segment"
  /\ lastOp.index = 1
  /\ ~lastOp.threw
  /\ before.selectedCategory = ClickedSlice.value
  /\ chartState.selectedCategory = chartState.categories[1].value
  /\ chartState.selectedCategory # before.selectedCategory

\* renderWidget shows the empty-state screen in place of the categories.
EmptyScreen(st) ==
  IF variant = "agg" THEN Agg_emptyState(st)
  ELSE IF variant = "attr" THEN Attr_emptyState(st)
  ELSE Range_emptyState(st)

\* The loaded data has at least one record: the total over all categories,
\* whatever is selected.
HasRecords(st) ==
  IF variant = "agg" THEN JsGtZero(st.overallTotal)
  ELSE IF variant = "attr" THEN JsGtZero(st.total)
  ELSE Len(st.allScores) > 0

\* C26: while the loaded data has at least one record, the widget shows its
\* categories with their click handlers after every click, also after the
\* selection of a category with count 0, so that the click back to
\* Unselected remains possible; a selection never puts the empty-state
\* screen in place of the widget.
C26_CategoriesStayClickable ==
  (variant \in {"agg", "attr", "range"} /\ Clicked /\ HasRecords(chartState))
    => ~EmptyScreen(chartState)

\* A category with count 0 was selected among records of other categories:
\* the total of the working set is 0 and the empty-state screen is shown.
C26_ZeroCountSelected ==
  /\ variant \in {"agg", "range"}
  /\ Clicked
  /\ HasRecords(chartState)
  /\ chartState.selectedCategory = lastOp.target
  /\ JsIsZero(chartState.total)
  /\ trace[1].emptyState

\* The expressions and values of a filters list.
FilterTerms(filters) ==
  {<< filters[i].expression, filters[i].parameters[2] >> :
     i \in 1..Len(filters)}

\* The filters list is the non-empty filter for the key k: equality with k,
\* or the score range of the band k in the range widget.
IsFilterFor(filters, k) ==
  /\ Len(filters) > 0
  /\ IF variant = "range"
     THEN FilterTerms(filters) =
            (IF k = Str("Healthy") THEN {<< "? >= ?", 81 >>}
             ELSE IF k = Str("Warning")
             THEN {<< "? >= ?", 51 >>, << "? <= ?", 80 >>}
             ELSE {<< "? < ?", 51 >>})
     ELSE FilterTerms(filters) = {<< "? = ?", k >>}

\* C27: the selection of the widget and the filter it has asked the host to
\* apply agree after every render, resize and click: while nothing is
\* selected the last setFilter message posted, if any, had an empty filters
\* list, and while k is selected the last setFilter message posted was the
\* non-empty filter for k.
C27_SelectionMatchesFilter ==
  chartState.defined =>
    /\ chartState.selectedCategory = Null =>
         (lastFilter.posted => lastFilter.filters = <<>>)
    /\ chartState.selectedCategory # Null =>
         /\ lastFilter.posted
         /\ IsFilterFor(lastFilter.filters, chartState.selectedCategory)

\* A render came after a selecting click: nothing is selected any more, and
\* the last setFilter message posted still is the filter of the category.
C27_RenderKeptFilter ==
  /\ lastOp.op = "render"
  /\ chartState.defined
  /\ chartState.selectedCategory = Null
  /\ before.defined
  /\ before.selectedCategory # Null
  /\ lastFilter.posted
  /\ IsFilterFor(lastFilter.filters, before.selectedCategory)
  /\ Posted("setFilter") = {}

\* handleCategoryClick of the range widget without recalculation (part_001):
\* the filters of a band.
Part001_filters(column, clickedValue) ==
  IF clickedValue = Str("Healthy")
  THEN << FilterExpr("? >= ?", column, 81) >>
  ELSE IF clickedValue = Str("Warning")
  THEN << FilterExpr("? between ?", column, << 51, 80 >>) >>
  ELSE IF clickedValue = Str("Error")
  THEN << FilterExpr("? <= ?", column, 50) >>
  ELSE <<>>

\* A score (in tenths) satisfies a filter expression on the score column;
\* 'between' includes both ends.
SatisfiesExpr(score, f) ==
  IF f.expression = "? >= ?" THEN score >= 10 * f.parameters[2]
  ELSE IF f.expression = "? <= ?" THEN score <= 10 * f.parameters[2]
  ELSE IF f.expression = "? < ?" THEN score < 10 * f.parameters[2]
  ELSE IF f.expression = "? between ?"
  THEN /\ score >= 10 * f.parameters[2][1]
       /\ score <= 10 * f.parameters[2][2]
  ELSE FALSE

\* The host selects the rows that satisfy every expression of the list.
FilterSelects(filters, score) ==
  \A i \in 1..Len(filters) : SatisfiesExpr(score, filters[i])

\* C28: in both range widgets the filter emitted for a band selects exactly
\* the scores that categorizeScore assigns to the band: after a click that
\* selects a band, every loaded score (integer or not) satisfies the
\* expressions of the setFilter message posted, and those that the widget
\* without recalculation posts for the band, if and only if categorizeScore
\* puts the score into the band.
C28_FilterMatchesBand ==
  (variant = "range" /\ Clicked /\ chartState.selectedCategory = lastOp.target
     /\ SlotFilled(host.slots, "measure")) =>
    /\ Posted("setFilter") # {}
    /\ \A i \in 1..Len(chartState.allScores) :
         /\ FilterSelects(lastFilter.filters, chartState.allScores[i])
              <=> Str(categorizeScore(chartState.allScores[i])) = lastOp.target
         /\ FilterSelects(Part001_filters(host.slots["measure"][1],
                                          lastOp.target),
                          chartState.allScores[i])
              <=> Str(categorizeScore(chartState.allScores[i])) = lastOp.target

\* The band Warning was selected with the score 80.5 loaded: categorizeScore
\* puts it into Warning, the filter posted leaves it out.
C28_ScoreBetweenBounds ==
  /\ variant = "range"
  /\ Clicked
  /\ chartState.selectedCategory = Str("Warning")
  /\ lastOp.target = Str("Warning")
  /\ chartState.allScores = << 805 >>
  /\ categorizeScore(805) = "Warning"
  /\ Posted("setFilter") # {}
  /\ ~FilterSelects(lastFilter.filters, 805)

\* The rows of the host are read: the required slots are filled and there is
\* a row.
RowsRead ==
  /\ Len(host.data) > 0
  /\ \A name \in RequiredSlots : SlotFilled(host.slots, name)

\* The number the count cell of a row coerces to, in the pre-aggregated and
\* in the attribute widget.
RowCount(row) ==
  IF variant = "agg"
  THEN extractValue(CellAt(row, IF SlotFilled(host.slots, "order")
                                THEN 2 ELSE 1), "number")
  ELSE Attr_number(CellAt(row, IF SlotFilled(host.slots, "order")
                               THEN 2 ELSE 1))

\* The sum of the count cells of the rows that resolve to one of the keys.
RECURSIVE SumRowCounts(_, _)
SumRowCounts(rows, keys) ==
  IF rows = <<>> THEN N(0)
  ELSE JsAdd(IF RowKey(rows[1]) \in keys THEN RowCount(rows[1]) ELSE N(0),
             SumRowCounts(Tail(rows), keys))

\* C29: in the pre-aggregated and in the attribute widget no row's count is
\* lost: the count of a category is the sum of the count cells of the rows
\* that resolve to its key, and the total over all categories is the sum of
\* the count cell over all rows.
C29_CountsSummed ==
  (variant \in {"agg", "attr"} /\ lastOp.op = "render" /\ RowsRead) =>
    /\ \A i \in 1..Len(chartState.categories) :
         chartState.categories[i].count =
           SumRowCounts(host.data, {chartState.categories[i].name})
    /\ SumOfCounts(chartState.categories) =
         SumRowCounts(host.data,
                      {RowKey(host.data[i]) : i \in 1..Len(host.data)})
    /\ chartState.total = SumOfCounts(chartState.categories)

\* Two rows with numeric counts resolved to the same key, and the category
\* shows the count of the second row alone.
C29_LaterRowReplaced ==
  /\ variant \in {"agg", "attr"}
  /\ lastOp.op = "render"
  /\ RowsRead
  /\ Len(host.data) = 2
  /\ RowKey(host.data[1]) = RowKey(host.data[2])
  /\ JsGtZero(RowCount(host.data[1]))
  /\ ~RowCount(host.data[2]).nan
  /\ Len(chartState.categories) = 1
  /\ chartState.categories[1].count = RowCount(host.data[2])
  /\ chartState.total = RowCount(host.data[2])

\* The category of the state whose key was clicked.
ClickedCategory(st) ==
  st.categories[CHOOSE i \in 1..Len(st.categories) :
                  st.categories[i].value = lastOp.target]

\* C30: a category whose key is the empty string behaves like any other in
\* the pre-aggregated and in the attribute widget: a click on it while
\* nothing is selected selects it (in the pre-aggregated widget total is
\* narrowed to its count), the customEvent has isFiltered = true and a
\* setFilter message with a non-empty filter for "" is posted; a click on it
\* while it is selected returns to nothing selected.
C30_EmptyKeySelectable ==
  (variant \in {"agg", "attr"} /\ Clicked /\ lastOp.target = Str("")) =>
    /\ before.selectedCategory = Null =>
         /\ chartState.selectedCategory = Str("")
         /\ variant = "agg" =>
              chartState.total = ClickedCategory(chartState).count
         /\ trace[2].data.isFiltered
         /\ Posted("setFilter") # {}
         /\ lastFilter.posted
         /\ IsFilterFor(lastFilter.filters, Str(""))
    /\ before.selectedCategory = Str("") =>
         chartState.selectedCategory = Null

\* The legend item of the key "" was clicked in the pre-aggregated widget
\* among other categories: nothing is selected, total is not narrowed and
\* the filters list posted is empty.
C30_EmptyKeyClickIgnored ==
  /\ variant = "agg"
  /\ Clicked
  /\ lastOp.target = Str("")
  /\ Len(chartState.categories) > 1
  /\ before.selectedCategory = Null
  /\ chartState.selectedCategory = Null
  /\ chartState.total = chartState.overallTotal
  /\ ~trace[2].data.isFiltered
  /\ lastFilter = [posted |-> TRUE, filters |-> <<>>]

=============================================================================
